---- MODULE Spec2Model ----
(***************************************************************************)
(* asPipes: deferred pipeline construction and evaluation (src/index.js)   *)
(* and the lazy stream combinators (src/unnamed/part_007, stream.js).      *)
(*                                                                         *)
(* One environment (one createAsPipes() call) is modelled: its registry    *)
(* `stack`, the contexts created by pipe(), the operation values created   *)
(* by asPipe and by binding arguments, and the folds started by run() and  *)
(* by the auto-flattening branches of a step.  A step function suspends    *)
(* once, at `await Promise.resolve(fn(v, ...args))`; StepCall is the part  *)
(* before that await and StepResume the part after it.                     *)
(***************************************************************************)
EXTENDS Integers, Sequences, FiniteSets, TLC

\* ------------------------------------------------------------------ bounds
MaxPipes == 2   \* pipe() calls made by the program itself (top level)
MaxSteps == 2   \* steps declared on one context by the program itself
MaxStack == 3   \* registry length up to which the program coerces a handle
MaxRuns  == 2   \* run() calls made by the program itself
MaxLen   == 4   \* elements a finite upstream sequence produces
MaxN     == 3   \* the largest n given to take(seq, n)
MaxFail  == 1   \* declarations the program makes on an empty registry
MaxTakes == 2   \* take() calls whose result the program keeps

\* pipe(x): the initial values the program starts pipelines with
InitVals == {1, 2}
\* the argument lists the program binds to `add`
BindArgs == {<<-1>>}

\* ------------------------------------------- the functions the program lifts
\* (the wrapped functions of src/test.js; `auto` is the README's direct form,
\*  a function whose body is the chain expression itself and so returns 0)
PlainFns    == {"inc", "asyncDouble", "add", "throwError", "rejectPromise"}
\* (calcFail and autoFail are composed functions with a failing step in their
\*  chain, in the handle form and in the direct form)
HandleFns   == {"calculate", "researchAgent", "calcFail"}
SentinelFns == {"auto", "autoFail"}
Fns         == PlainFns \cup HandleFns \cup SentinelFns

Bare(f)     == [fn |-> f, args |-> <<>>]
Bound(f, a) == [fn |-> f, args |-> a]

\* the chain a composed function declares on the pipeline it begins
Body(f) ==
  CASE f = "calculate"     -> << Bound("add", <<-1>>), Bare("asyncDouble") >>
    [] f = "researchAgent" -> << Bare("calculate"), Bare("inc") >>
    [] f = "auto"          -> << Bare("inc"), Bare("asyncDouble") >>
    [] f = "calcFail"      -> << Bare("inc"), Bare("throwError") >>
    [] f = "autoFail"      -> << Bare("rejectPromise"), Bare("inc") >>
    [] OTHER               -> << >>

\* ------------------------------------------------------- what a call returns
Val(n)     == [k |-> "val",     v |-> n]      \* a plain value, returned at once
Pending(n) == [k |-> "promise", v |-> n]      \* a pending promise fulfilling with n
Throw(e)   == [k |-> "throw",   v |-> e]      \* a synchronous throw
Reject(e)  == [k |-> "reject",  v |-> e]      \* a promise that rejects with e
Handle(c)  == [k |-> "handle",  v |-> c]      \* the token of context c
Runnable(n) == [k |-> "runnable", v |-> n]    \* an object whose run() gives n
Object(n)   == [k |-> "object",   v |-> n]    \* an object n whose run is no function

\* a method that reads its receiver, scale(x) { return x * this.k }, of an object
\* with k = 2: "scale" is the method itself, "scaleBound" is scale.bind(object)
MethodFns == {"scale", "scaleBound"}

\* functions that return objects, or 0:
\*   job    = x => ({ run: async () => x * 3 })
\*   tagged = x => ({ value: x, run: 'never' }), written as its value x
\*   zero   = x => 0
ObjectFns == {"job", "tagged", "zero"}

\* the wrapped function itself, fn(v, ...args), for the plain functions; a step
\* calls fn without a receiver, so the unbound method reads k of undefined
PlainResult(op, v) ==
  CASE op.fn = "inc"           -> Val(v + 1)
    [] op.fn = "asyncDouble"   -> Pending(v * 2)
    [] op.fn = "add"           -> Val(v + op.args[1])
    [] op.fn = "throwError"    -> Throw("Test error")
    [] op.fn = "rejectPromise" -> Reject("Async error")
    [] op.fn = "scale"         -> Throw("TypeError")
    [] op.fn = "scaleBound"    -> Val(v * 2)
    [] op.fn = "job"           -> Runnable(v * 3)
    [] op.fn = "tagged"        -> Object(v)
    [] op.fn = "zero"          -> Val(0)

VARIABLES
  ctxs,      \* the contexts { v, steps } created by pipe(), by identity
  stack,     \* the registry: context identities, top last
  bound,     \* the argument-bound operation values created so far
  folds,     \* the promise chains started by run() or by auto-flattening
  invoked,   \* how many times a wrapped function has been called
  src,       \* the upstream sequence of a take: what it has produced so far
  tk,        \* the generator made by take(seq, n)
  cons,      \* the consumer of that generator
  got,       \* the elements the consumer has received
  gens,      \* the generators made by the map/filter/take/scan steps of a pipeline
  rs,        \* run() of that pipeline, and its reduce step if it has one
  cerr,      \* the failure the consumer's pull threw, "" if none
  derr,      \* how many declarations have thrown (no context on the registry)
  other,     \* the environment of a second createAsPipes() call
  cur,       \* which of the two environments the variables above are: 1 or 2
  lifted,    \* the members read from asPipe(object) so far, with what was read
  taken      \* what the take() calls whose result the program keeps returned

xvars == << derr, other, cur, lifted, taken >>
evars == << ctxs, stack, bound, folds, invoked, derr, other, cur, lifted, taken >>
cvars == << gens, rs, cerr >>
svars == << src, tk, cons, got, gens, rs, cerr >>
vars  == << ctxs, stack, bound, folds, invoked, src, tk, cons, got, gens, rs, cerr,
            derr, other, cur, lifted, taken >>

\* Identities.  The n-th pipe() call of the program makes context << 0, n >>; the
\* n-th run() call of the program starts fold << n >>; the pipe() call made
\* inside the function of step i of fold p makes context p \o << i >>, and the
\* fold that step i of fold p awaits is fold p \o << i >>.
PipeId(n)      == << 0, n >>
NestedId(p, i) == p \o << i >>
Parent(p)      == SubSeq(p, 1, Len(p) - 1)
IsTop(p)       == Len(p) = 1

\* ----------------------------------------------------------- construction
\* pipe(x): const ctx = { v: x, steps: [], token }
\*   v, vk, why   the initial value: vk = "val", a plain value v; "promise", a
\*                pending promise that fulfils with v; "reject", a promise
\*                rejected with the reason why
NewCtx(x) == [v |-> x, steps |-> << >>, vk |-> "val", why |-> ""]

\* pipe(p) with a promise p as the initial value
PromiseCtx(p) ==
  [v     |-> IF p.k = "promise" THEN p.v ELSE 0,
   steps |-> << >>,
   vk    |-> p.k,
   why   |-> IF p.k = "reject" THEN p.v ELSE ""]

\* token[Symbol.toPrimitive]: stack.push(ctx)
PushCtx(st, c) == Append(st, c)

\* faulty variant of AppendStep: the step goes to the oldest registry entry
\* (stack[0].steps.push(step))
AppendStepBottom(cx, st, op) ==
  LET bottom == st[1]
  IN  [cx EXCEPT ![bottom].steps = Append(@, op)]

\* op[Symbol.toPrimitive]: stack.at(-1).steps.push(step)
AppendStep(cx, st, op) ==
  LET top == st[Len(st)]
  IN  [cx EXCEPT ![top].steps = Append(@, op)]

\* p | op1 | ... | opk, operands coerced left to right
RECURSIVE DeclareAll(_, _, _)
DeclareAll(cx, st, ops) ==
  IF ops = << >> THEN cx
  ELSE DeclareAll(AppendStep(cx, st, Head(ops)), st, Tail(ops))

\* fn(v, ...args) for every lifted function: what it returns, and what its body
\* does to the contexts and the registry while it runs (synchronously).
\* A composed function begins a pipeline on its argument (context c) and declares
\* Body on it; it returns the handle (calculate, researchAgent) or the value of
\* the chain expression, which is 0 (auto).
Call(op, v, cx, st, c) ==
  IF op.fn \in PlainFns \cup MethodFns \cup ObjectFns
  THEN [res |-> PlainResult(op, v), ctxs |-> cx, stack |-> st]
  ELSE LET cx1 == cx @@ (c :> NewCtx(v))
           st1 == PushCtx(st, c)
           cx2 == DeclareAll(cx1, st1, Body(op.fn))
       IN  [res   |-> IF op.fn \in SentinelFns THEN Val(0) ELSE Handle(c),
            ctxs  |-> cx2,
            stack |-> st1]

\* ------------------------------------------------------------------ folds
\* faulty variant of NewFold: the chain is built from the last step to the first
\* (reduceRight)
NewFoldReversed(cx, c, how) ==
  [ctx |-> c,
   steps |-> [j \in 1..Len(cx[c].steps) |-> cx[c].steps[Len(cx[c].steps) + 1 - j]],
   i |-> 1, acc |-> cx[c].v,
   st |-> IF cx[c].steps = << >> THEN "done" ELSE "ready",
   before |-> 0, res |-> Val(0), via |-> how,
   ins |-> << >>, outs |-> << >>, err |-> ""]

\* faulty variant of NewFold: the chain starts from a fulfilled promise
\* whatever the initial value is (Promise.resolve(ctx.v).catch(() => 0))
NewFoldIgnoresReject(cx, c, how) ==
  [ctx |-> c, steps |-> cx[c].steps, i |-> 1, acc |-> cx[c].v,
   st |-> IF cx[c].steps = << >> THEN "done" ELSE "ready",
   before |-> 0, res |-> Val(0), via |-> how,
   ins |-> << >>, outs |-> << >>, err |-> ""]

\* ctx.steps.reduce((p, f) => p.then(f), Promise.resolve(ctx.v)): the chain is
\* built from the step list as it is at this moment.  Promise.resolve(ctx.v) is
\* ctx.v itself when that is a promise: the first .then(f) gets the value it
\* fulfils with, and when it is rejected every .then(f) is skipped and the
\* chain rejects with its reason.
\*   st     "ready"   step i is about to be called with acc
\*          "called"  step i awaits Promise.resolve(res); before = stack.length
\*          "nested"  step i awaits the fold of a nested context
\*          "done"    fulfilled with acc      "failed"  rejected with err
\*   via    what started the fold: "run" (the program's run() call), "handle"
\*          (result.run() in a step) or "sentinel" (the pop in a step)
\*   ins / outs: the calls made so far (operation, argument), and what the
\*          fulfilled steps settled to
NewFold(cx, c, how) ==
  [ctx |-> c, steps |-> cx[c].steps, i |-> 1, acc |-> cx[c].v,
   st |-> IF cx[c].vk = "reject" THEN "failed"
          ELSE IF cx[c].steps = << >> THEN "done" ELSE "ready",
   before |-> 0, res |-> Val(0), via |-> how,
   ins |-> << >>, outs |-> << >>,
   err |-> IF cx[c].vk = "reject" THEN cx[c].why ELSE ""]

\* Step i of fold f has fulfilled with v, or (ok = FALSE) rejected with e.
\* A fulfilled step hands v to the next .then(f); after the last one the fold is
\* fulfilled and, for a nested fold, so is the parent's step that awaits it.
\* A rejection skips every later .then(f) and rejects the parent's step too.
RECURSIVE Settle(_, _, _, _, _)

\* faulty variant of Settle: every .then(f) is handed the value the fold had before the
\* step instead of the step's result
SettleKeepsAcc(fs, f, ok, v, e) ==
  LET r == fs[f]
  IN  IF ok
      THEN IF r.i < Len(r.steps)
           THEN [fs EXCEPT ![f] = [r EXCEPT !.st = "ready", !.i = r.i + 1,
                                           !.outs = Append(r.outs, v)]]
           ELSE LET fs1 == [fs EXCEPT ![f] = [r EXCEPT !.st = "done", !.acc = v,
                                                       !.outs = Append(r.outs, v)]]
                IN  IF IsTop(f) THEN fs1 ELSE Settle(fs1, Parent(f), TRUE, v, e)
      ELSE LET fs1 == [fs EXCEPT ![f] = [r EXCEPT !.st = "failed", !.err = e]]
           IN  IF IsTop(f) THEN fs1 ELSE Settle(fs1, Parent(f), FALSE, v, e)

\* faulty variant of Settle: a rejected step is caught and the fold goes on with the
\* value it had (p.then(f).catch(() => v))
SettleContinues(fs, f, ok, v, e) ==
  LET r == fs[f]
      w == IF ok THEN v ELSE r.acc
  IN  IF r.i < Len(r.steps)
      THEN [fs EXCEPT ![f] = [r EXCEPT !.st = "ready", !.i = r.i + 1, !.acc = w,
                                      !.outs = Append(r.outs, w)]]
      ELSE LET fs1 == [fs EXCEPT ![f] = [r EXCEPT !.st = "done", !.acc = w,
                                                  !.outs = Append(r.outs, w)]]
           IN  IF IsTop(f) THEN fs1 ELSE Settle(fs1, Parent(f), TRUE, w, e)

\* faulty variant of Settle: the rejection of a nested fold is not handed to
\* the step that awaits it, which is fulfilled with the sentinel instead
\* (await nested.run().catch(() => 0))
SettleDropsNested(fs, f, ok, v, e) ==
  LET r == fs[f]
  IN  IF ok
      THEN IF r.i < Len(r.steps)
           THEN [fs EXCEPT ![f] = [r EXCEPT !.st = "ready", !.i = r.i + 1, !.acc = v,
                                           !.outs = Append(r.outs, v)]]
           ELSE LET fs1 == [fs EXCEPT ![f] = [r EXCEPT !.st = "done", !.acc = v,
                                                       !.outs = Append(r.outs, v)]]
                IN  IF IsTop(f) THEN fs1 ELSE Settle(fs1, Parent(f), TRUE, v, e)
      ELSE LET fs1 == [fs EXCEPT ![f] = [r EXCEPT !.st = "failed", !.err = e]]
           IN  IF IsTop(f) THEN fs1 ELSE Settle(fs1, Parent(f), TRUE, 0, "")

Settle(fs, f, ok, v, e) ==
  LET r == fs[f]
  IN  IF ok
      THEN IF r.i < Len(r.steps)
           THEN [fs EXCEPT ![f] = [r EXCEPT !.st = "ready", !.i = r.i + 1, !.acc = v,
                                           !.outs = Append(r.outs, v)]]
           ELSE LET fs1 == [fs EXCEPT ![f] = [r EXCEPT !.st = "done", !.acc = v,
                                                       !.outs = Append(r.outs, v)]]
                IN  IF IsTop(f) THEN fs1 ELSE Settle(fs1, Parent(f), TRUE, v, e)
      ELSE LET fs1 == [fs EXCEPT ![f] = [r EXCEPT !.st = "failed", !.err = e]]
           IN  IF IsTop(f) THEN fs1 ELSE Settle(fs1, Parent(f), FALSE, v, e)

\* faulty variant of Nest: the nested context's steps are not run, the step settles to
\* the nested pipeline's initial value
NestNoRun(fs, cx, f, c, how) ==
  Settle(fs @@ (NestedId(f, fs[f].i) :> [NewFold(cx, c, how) EXCEPT !.st = "done"]),
         f, TRUE, cx[c].v, "")

\* step i of fold f starts awaiting the fold of context c
Nest(fs, cx, f, c, how) ==
  LET child == NewFold(cx, c, how)
      kid   == NestedId(f, fs[f].i)
      fs1   == [fs EXCEPT ![f].st = "nested"] @@ (kid :> child)
  IN  IF child.st = "done" THEN Settle(fs1, f, TRUE, child.acc, "") ELSE fs1

\* the contexts the program itself began (the handles it holds), its run() calls
Pipes    == {c \in DOMAIN ctxs : c[1] = 0}
TopFolds == {f \in DOMAIN folds : IsTop(f)}
Active(f) == folds[f].st \in {"ready", "called", "nested"}
Idle     == \A f \in DOMAIN folds : ~Active(f)

\* a fresh environment (createAsPipes(): const stack = [])
\* what createAsPipes() returns: an environment with an empty registry
NewEnv == [ctxs |-> << >>, stack |-> << >>, bound |-> {}, folds |-> << >>,
           invoked |-> 0]

InitEnv ==
  /\ ctxs = << >>
  /\ stack = << >>
  /\ bound = {}
  /\ folds = << >>
  /\ invoked = 0
  /\ derr = 0
  /\ other = NewEnv
  /\ cur = 1
  /\ lifted = {}
  /\ taken = << >>

\* ---------------------------------------------------------------- streams
\* The upstream of a take: an async generator yielding 1, 2, 3, ... , endless
\* (while (true) yield i++) or ending after len elements.  pulled counts the
\* elements it has been asked for and produced; closed: return() was called.
\* A producer may also throw when it is asked for its fail-th element
\* (fail = 0: it never throws); failed: it has thrown.
NewSource(endless, len) ==
  [endless |-> endless, len |-> len, pulled |-> 0, closed |-> FALSE,
   fail |-> 0, failed |-> FALSE, stalls |-> FALSE]
HasMore(s) == s.endless \/ s.pulled < s.len

\* an upstream that produces len elements and then neither produces nor ends:
\* filter(events, p) over an endless event stream in which exactly len events
\* satisfy p; its next() after the last of them stays pending for ever
StallingSource(len) == [NewSource(FALSE, len) EXCEPT !.stalls = TRUE]
Stalled(s)          == s.stalls /\ s.pulled >= s.len

\* take = asPipe(async function* (iterable, n) { let count = 0; ... }), called
\*   pc  "start"    not started: nothing of the body has run
\*       "pulling"  in for await, waiting for the upstream's answer ans
\*       "blocked"  in for await, the upstream never answers
\*       "yielded"  suspended at yield item
\*       "done"     returned
NewTake(n) == [n |-> n, count |-> 0, pc |-> "start", ans |-> 0]

\* ---------------------------------------------- the stream combinators
\* JavaScript's undefined: the initialValue of a scan or reduce called without
\* one, and what a reducer without a return statement returns.  Elements and
\* sums are positive, so it is none of them.
Undefined == -1

\* the functions the program hands to the combinators
MapFns     == {"double", "asyncDouble"}           \* x => x * 2, also as a promise
PredFns    == {"gt5", "asyncIsEven", "badPred"}   \* x => x > 5, async x % 2 === 0
ReducerFns == {"sum", "asyncSum", "noReturn", "badReducer"}
Inits      == {Undefined, 0}

\* fn(item) / predicate(item)
ElemResult(fn, x) ==
  CASE fn = "double"      -> Val(x * 2)
    [] fn = "asyncDouble" -> Pending(x * 2)
    [] fn = "gt5"         -> Val(x > 5)
    [] fn = "asyncIsEven" -> Pending(x % 2 = 0)
    [] fn = "badPred"     -> IF x >= 2 THEN Throw("Predicate error") ELSE Val(TRUE)

\* reducer(accumulator, item)
ReducerResult(fn, acc, x) ==
  CASE fn = "sum"        -> Val(acc + x)
    [] fn = "asyncSum"   -> Pending(acc + x)
    [] fn = "noReturn"   -> Val(Undefined)
    [] fn = "badReducer" -> IF x >= 2 THEN Reject("Reducer error") ELSE Val(acc + x)

\* await Promise.resolve(r): the value, or the exception thrown at the await
Await(r) ==
  [ok |-> r.k \in {"val", "promise"},
   v  |-> r.v,
   e  |-> IF r.k \in {"throw", "reject"} THEN r.v ELSE ""]

\* the generator a combinator step returns: nothing of its body has run.
\*   arg    n of take, initialValue of scan
\*   count  the count variable of take; for map, filter and scan, how many
\*          times the function argument has been called
\*   pc     "start", "running" (in its for await), "yielded", "done"
\*   err    the exception its function argument threw, "" if none
NewStage(kind, fn, arg) ==
  [kind |-> kind, fn |-> fn, arg |-> arg, pc |-> "start", count |-> 0,
   acc |-> IF kind = "scan" THEN arg ELSE Undefined, first |-> TRUE, err |-> ""]

\* run() of a stream pipeline, with the state of its reduce step (red = "none":
\* the pipeline has no reduce step)
\*   st     "new", "reducing", "stream" (fulfilled with the last generator),
\*          "value" (fulfilled with val), "rejected" (with err)
\*   ins    the elements the reduce step has received
\*   ferr   the exception the reducer threw, "" if none
NewRun(red, init) ==
  [st |-> "new", red |-> red, init |-> init, acc |-> init, first |-> TRUE,
   val |-> Undefined, err |-> "", ferr |-> "", ins |-> << >>]

NoComb ==
  /\ gens = << >>
  /\ rs = NewRun("none", Undefined)
  /\ cerr = ""

\* no stream in use
NoStream ==
  /\ src = NewSource(FALSE, 0)
  /\ tk = NewTake(0)
  /\ cons = "idle"
  /\ got = << >>
  /\ NoComb

Init == InitEnv /\ NoStream

\* the consumer calls next() on the take generator.  The body runs up to its
\* next await: from the start, or from the yield (count++ and the next
\* iteration), it asks the upstream for an element; a finished generator
\* answers done at once.
TakeNext ==
  /\ cons = "idle"
  /\ IF tk.pc = "done"
     THEN /\ cons' = "end"
          /\ UNCHANGED << src, tk >>
     ELSE /\ cons' = "waiting"
          /\ tk' = [tk EXCEPT !.pc = IF Stalled(src) THEN "blocked" ELSE "pulling",
                              !.count = IF tk.pc = "yielded" THEN tk.count + 1
                                                            ELSE tk.count,
                              !.ans = IF HasMore(src) THEN src.pulled + 1 ELSE 0]
          /\ src' = IF HasMore(src) THEN [src EXCEPT !.pulled = src.pulled + 1]
                                    ELSE src
  /\ UNCHANGED << got, evars, cvars >>

\* faulty variant of TakeResume: the boundary test is count > n, so the take
\* yields one element more before it breaks
TakeResumeLate ==
  /\ tk.pc = "pulling"
  /\ IF tk.ans = 0
     THEN /\ tk' = [tk EXCEPT !.pc = "done"]
          /\ cons' = "end"
          /\ UNCHANGED << src, got >>
     ELSE IF tk.count > tk.n
     THEN /\ tk' = [tk EXCEPT !.pc = "done"]
          /\ src' = [src EXCEPT !.closed = TRUE]
          /\ cons' = "end"
          /\ UNCHANGED got
     ELSE /\ tk' = [tk EXCEPT !.pc = "yielded"]
          /\ got' = Append(got, tk.ans)
          /\ cons' = "idle"
          /\ UNCHANGED src
  /\ UNCHANGED << evars, cvars >>

\* the upstream's answer arrives in the for await:
\*   for await (const item of iterable) { if (count >= n) break; yield item; count++ }
\* the upstream is exhausted (ans = 0): the loop ends and the generator returns;
\* count >= n: break closes the upstream and the generator returns;
\* otherwise the item is yielded to the consumer.
TakeResume ==
  /\ tk.pc = "pulling"
  /\ IF tk.ans = 0
     THEN /\ tk' = [tk EXCEPT !.pc = "done"]
          /\ cons' = "end"
          /\ UNCHANGED << src, got >>
     ELSE IF tk.count >= tk.n
     THEN /\ tk' = [tk EXCEPT !.pc = "done"]
          /\ src' = [src EXCEPT !.closed = TRUE]
          /\ cons' = "end"
          /\ UNCHANGED got
     ELSE /\ tk' = [tk EXCEPT !.pc = "yielded"]
          /\ got' = Append(got, tk.ans)
          /\ cons' = "idle"
          /\ UNCHANGED src
  /\ UNCHANGED << evars, cvars >>

\* the consumer stops asking (it leaves its loop without draining)
Abandon ==
  /\ cons = "idle"
  /\ cons' = "stopped"
  /\ UNCHANGED << src, tk, got, evars, cvars >>

\* take(seq, n) for every n from -1 to MaxN over an endless upstream and over
\* upstreams of 0 .. MaxLen elements, with every consumer
InitStream ==
  /\ InitEnv
  /\ \E e \in BOOLEAN, l \in 0..MaxLen :
       /\ (e => l = 0)
       /\ src = NewSource(e, l)
  /\ \E n \in -1..MaxN : tk = NewTake(n)
  /\ cons = "idle"
  /\ got = << >>
  /\ NoComb

NextStream == TakeNext \/ TakeResume \/ Abandon

SpecStream == InitStream /\ [][NextStream]_vars

\* collect(take(seq, n)): a consumer that drains the take, for await to the end.
\* Every next() it issues is answered (the generators' continuations are
\* microtasks, which the event loop always runs), hence the weak fairness.
NextDrain == TakeNext \/ TakeResume

SpecDrain ==
  InitStream /\ [][NextDrain]_vars /\ WF_vars(TakeNext) /\ WF_vars(TakeResume)

\* The same consumer over event streams: take(seq, n) for every n from 0 to
\* MaxN over upstreams that produce 0 .. MaxLen elements and then either end
\* or stay silent.
InitStall ==
  /\ InitEnv
  /\ \E l \in 0..MaxLen, silent \in BOOLEAN :
       src = IF silent THEN StallingSource(l) ELSE NewSource(FALSE, l)
  /\ \E n \in 0..MaxN : tk = NewTake(n)
  /\ cons = "idle"
  /\ got = << >>
  /\ NoComb

SpecStall ==
  InitStall /\ [][NextDrain]_vars /\ WF_vars(TakeNext) /\ WF_vars(TakeResume)

\* ------------------------------------------------ pulling through a pipeline
\* what a pull (next()) is answered with
Item(v) == [k |-> "item",  v |-> v, e |-> ""]
Done    == [k |-> "done",  v |-> 0, e |-> ""]
Fail(e) == [k |-> "throw", v |-> 0, e |-> e]

UpstreamError == "Upstream error"

\* a finite producer of 1 .. len that throws when asked for its k-th element
FailingSource(len, k) == [NewSource(FALSE, len) EXCEPT !.fail = k]

\* next() on the producer
SourcePull(gs, s) ==
  IF s.closed \/ s.failed
  THEN [gens |-> gs, src |-> s, ans |-> Done]
  ELSE IF s.fail = s.pulled + 1
  THEN [gens |-> gs, src |-> [s EXCEPT !.failed = TRUE], ans |-> Fail(UpstreamError)]
  ELSE IF HasMore(s)
  THEN [gens |-> gs, src |-> [s EXCEPT !.pulled = s.pulled + 1],
        ans |-> Item(s.pulled + 1)]
  ELSE [gens |-> gs, src |-> s, ans |-> Done]

\* return() on generator j, suspended at a yield inside its for await: the
\* loop's iterator is closed in turn, down to the producer
CloseUp(gs, s, j) ==
  [gens |-> [i \in 1..Len(gs) |-> IF i <= j THEN [gs[i] EXCEPT !.pc = "done"]
                                            ELSE gs[i]],
   src  |-> [s EXCEPT !.closed = TRUE]]

\* faulty variant of Ended: a failure of the upstream is taken as its end
EndedSwallow(up, j) ==
  [gens |-> [up.gens EXCEPT ![j].pc = "done"], src |-> up.src, ans |-> Done]

\* for await (const item of iterable) when the pull was not answered with an
\* element: the loop ends and the generator returns, or the pull threw and the
\* generator throws that same exception
Ended(up, j) ==
  [gens |-> [up.gens EXCEPT ![j].pc = "done"], src |-> up.src, ans |-> up.ans]

\* the function argument threw in the loop body: the upstream is closed and the
\* generator throws e
Failed(up, j, e) ==
  LET c == CloseUp(up.gens, up.src, j - 1)
  IN  [gens |-> [c.gens EXCEPT ![j].pc = "done", ![j].err = e],
       src  |-> c.src,
       ans  |-> Fail(e)]

\* yield v, with g as the generator's state
Yield(up, j, g, v) ==
  [gens |-> [up.gens EXCEPT ![j] = [g EXCEPT !.pc = "yielded"]],
   src  |-> up.src,
   ans  |-> Item(v)]

RECURSIVE Pull(_, _, _)

\* faulty variant of MapItem: the element itself is yielded
MapItemSame(up, j) ==
  Yield(up, j, up.gens[j], up.ans.v)

\* the function argument of generator j has been called once more
Called(up, j) == [up EXCEPT !.gens[j].count = @ + 1]

\* map:  yield await Promise.resolve(fn(item))
MapItem(up, j) ==
  LET g == Called(up, j).gens[j]
      a == Await(ElemResult(g.fn, up.ans.v))
  IN  IF a.ok THEN Yield(up, j, g, a.v) ELSE Failed(Called(up, j), j, a.e)

\* faulty variant of FilterItem: an element that does not pass ends the loop
\* (takeWhile)
FilterItemStops(up, j) ==
  LET g == up.gens[j]
      a == Await(ElemResult(g.fn, up.ans.v))
  IN  IF ~a.ok THEN Failed(up, j, a.e)
      ELSE IF a.v THEN Yield(up, j, g, up.ans.v)
      ELSE Ended([up EXCEPT !.ans = Done], j)

\* filter:  if (await Promise.resolve(predicate(item))) yield item;
\* an element that is not yielded takes the loop to its next pull
FilterItem(up, j) ==
  LET g == Called(up, j).gens[j]
      a == Await(ElemResult(g.fn, up.ans.v))
  IN  IF ~a.ok THEN Failed(Called(up, j), j, a.e)
      ELSE IF a.v THEN Yield(up, j, g, up.ans.v)
      ELSE Pull([up.gens EXCEPT ![j] = [g EXCEPT !.pc = "running"]], up.src, j)

\* take:  if (count >= n) break; yield item; count++
\* (count++ runs when the generator is resumed from its yield)
TakeItem(up, j) ==
  LET g   == up.gens[j]
      cnt == IF g.pc = "yielded" THEN g.count + 1 ELSE g.count
  IN  IF cnt >= g.arg
      THEN LET c == CloseUp(up.gens, up.src, j - 1)
           IN  [gens |-> [c.gens EXCEPT ![j].pc = "done", ![j].count = cnt],
                src  |-> c.src,
                ans  |-> Done]
      ELSE Yield(up, j, [g EXCEPT !.count = cnt], up.ans.v)

\* scan:  if (isFirst && accumulator === undefined) { accumulator = item;
\*          isFirst = false } else accumulator = await reducer(accumulator, item)
ScanStep(g, item) ==
  IF g.first /\ g.acc = Undefined
  THEN [ok |-> TRUE, acc |-> item, first |-> FALSE, e |-> ""]
  ELSE LET a == Await(ReducerResult(g.fn, g.acc, item))
       IN  [ok |-> a.ok, acc |-> IF a.ok THEN a.v ELSE g.acc,
            first |-> g.first, e |-> a.e]

\* scan:  ...; yield accumulator
ScanItem(up, j) ==
  LET seed == up.gens[j].first /\ up.gens[j].acc = Undefined
      cd   == IF seed THEN up ELSE Called(up, j)
      g    == cd.gens[j]
      n    == ScanStep(g, up.ans.v)
  IN  IF n.ok THEN Yield(up, j, [g EXCEPT !.acc = n.acc, !.first = n.first], n.acc)
      ELSE Failed(cd, j, n.e)

\* next() on generator j of the pipeline (j = 0: the producer).  The body runs
\* from where it is suspended to its next yield, its return or its throw; every
\* iteration of its for await pulls from generator j - 1.
Pull(gs, s, j) ==
  IF j = 0 THEN SourcePull(gs, s)
  ELSE IF gs[j].pc = "done" THEN [gens |-> gs, src |-> s, ans |-> Done]
  ELSE LET up == Pull(gs, s, j - 1)
       IN  IF up.ans.k # "item" THEN Ended(up, j)
           ELSE CASE gs[j].kind = "map"    -> MapItem(up, j)
                  [] gs[j].kind = "filter" -> FilterItem(up, j)
                  [] gs[j].kind = "take"   -> TakeItem(up, j)
                  [] gs[j].kind = "scan"   -> ScanItem(up, j)

\* the outputs of scan over the elements xs, from generator state g
RECURSIVE ScanSeq(_, _)
ScanSeq(g, xs) ==
  IF xs = << >> THEN << >>
  ELSE LET n == ScanStep(g, Head(xs))
       IN  IF n.ok
           THEN << n.acc >> \o ScanSeq([g EXCEPT !.acc = n.acc, !.first = n.first],
                                       Tail(xs))
           ELSE << >>

\* faulty variant of ReduceStep: the seeding element is folded as well
ReduceStepSeedTwice(r, item) ==
  LET a == Await(ReducerResult(r.red, IF r.first /\ r.acc = Undefined
                                      THEN item ELSE r.acc, item))
  IN  [ok |-> a.ok, acc |-> IF a.ok THEN a.v ELSE r.acc,
       first |-> FALSE, e |-> a.e]

\* reduce:  if (isFirst && accumulator === undefined) { accumulator = item;
\*            isFirst = false } else accumulator = await reducer(accumulator, item)
ReduceStep(r, item) ==
  IF r.first /\ r.acc = Undefined
  THEN [ok |-> TRUE, acc |-> item, first |-> FALSE, e |-> ""]
  ELSE LET a == Await(ReducerResult(r.red, r.acc, item))
       IN  [ok |-> a.ok, acc |-> IF a.ok THEN a.v ELSE r.acc,
            first |-> r.first, e |-> a.e]

\* faulty variant of RunStream: the step starts its generator, which pulls its
\* first element at once
RunStreamPrimes ==
  /\ rs.st = "new"
  /\ rs' = [rs EXCEPT !.st = IF rs.red = "none" THEN "stream" ELSE "reducing"]
  /\ LET r == Pull(gens, src, Len(gens))
     IN  gens' = r.gens /\ src' = r.src
  /\ UNCHANGED << tk, cons, got, cerr, evars >>

\* ------------------------------------------------- a stream pipeline's program
\*   (result = pipe(numbers())) | map(f) | filter(p) ... [| reduce(r, init)];
\*   const x = await result.run();   const items = await collect(x);
\* run(): every step calls its combinator with the previous step's result.  A
\* generator function returns its generator without running any of its body,
\* so run() is fulfilled with the last generator unless the last step is reduce.
RunStream ==
  /\ rs.st = "new"
  /\ rs' = [rs EXCEPT !.st = IF rs.red = "none" THEN "stream" ELSE "reducing"]
  /\ UNCHANGED << src, tk, cons, got, gens, cerr, evars >>

\* reduce: one iteration of its for await, or its return after the last one
ReduceIter ==
  /\ rs.st = "reducing"
  /\ LET r == Pull(gens, src, Len(gens))
     IN  CASE r.ans.k = "done" ->
                /\ rs' = [rs EXCEPT !.st = "value", !.val = rs.acc]
                /\ gens' = r.gens /\ src' = r.src
           [] r.ans.k = "throw" ->
                /\ rs' = [rs EXCEPT !.st = "rejected", !.err = r.ans.e]
                /\ gens' = r.gens /\ src' = r.src
           [] r.ans.k = "item" ->
                LET n == ReduceStep(rs, r.ans.v)
                    c == CloseUp(r.gens, r.src, Len(gens))
                IN  IF n.ok
                    THEN /\ rs' = [rs EXCEPT !.acc = n.acc, !.first = n.first,
                                             !.ins = Append(rs.ins, r.ans.v)]
                         /\ gens' = r.gens /\ src' = r.src
                    ELSE /\ rs' = [rs EXCEPT !.st = "rejected", !.err = n.e,
                                             !.ferr = n.e,
                                             !.ins = Append(rs.ins, r.ans.v)]
                         /\ gens' = c.gens /\ src' = c.src
  /\ UNCHANGED << tk, cons, got, cerr, evars >>

\* collect(stream): one iteration of its for await over the generator run() was
\* fulfilled with
CollectNext ==
  /\ rs.st = "stream"
  /\ cons = "idle"
  /\ LET r == Pull(gens, src, Len(gens))
     IN  /\ gens' = r.gens
         /\ src' = r.src
         /\ CASE r.ans.k = "item"  -> /\ got' = Append(got, r.ans.v)
                                      /\ UNCHANGED << cons, cerr >>
              [] r.ans.k = "done"  -> /\ cons' = "end"
                                      /\ UNCHANGED << got, cerr >>
              [] r.ans.k = "throw" -> /\ cons' = "failed"
                                      /\ cerr' = r.ans.e
                                      /\ UNCHANGED got
  /\ UNCHANGED << tk, rs, evars >>

\* the pipelines of the tests: one combinator, or map followed by filter or take,
\* collected or reduced, over producers of 0 .. MaxLen elements that may fail
MapStages    == {NewStage("map", f, 0) : f \in MapFns}
FilterStages == {NewStage("filter", p, 0) : p \in PredFns}
TakeStages   == {NewStage("take", "none", n) : n \in 0..MaxN}
ScanStages   == {NewStage("scan", r, i) : r \in ReducerFns, i \in Inits}
Pipelines ==
  {<< >>} \cup {<< a >> : a \in MapStages \cup FilterStages \cup TakeStages \cup ScanStages}
          \cup {<< a, b >> : a \in MapStages, b \in FilterStages \cup TakeStages}

InitComb ==
  /\ InitEnv
  /\ tk = NewTake(0)
  /\ \E l \in 0..MaxLen, k \in 0..MaxLen + 1 :
       /\ k <= l + 1
       /\ src = FailingSource(l, k)
  /\ \E p \in Pipelines, r \in ReducerFns \cup {"none"}, i \in Inits :
       /\ r = "none" => i = Undefined
       /\ r # "none" => \A j \in 1..Len(p) : p[j].kind # "scan"
       /\ gens = p
       /\ rs = NewRun(r, i)
  /\ cons = "idle"
  /\ got = << >>
  /\ cerr = ""

NextComb == RunStream \/ ReduceIter \/ CollectNext

SpecComb == InitComb /\ [][NextComb]_vars

\* ------------------------------------------------- the program's statements
\* faulty variant of Pipe: the new context is pushed onto the registry at once
PipePushes(x) ==
  /\ Cardinality(Pipes) < MaxPipes
  /\ ctxs' = ctxs @@ (PipeId(Cardinality(Pipes) + 1) :> NewCtx(x))
  /\ stack' = PushCtx(stack, PipeId(Cardinality(Pipes) + 1))
  /\ UNCHANGED << bound, folds, invoked , svars, xvars >>

\* pipe(x)
Pipe(x) ==
  /\ Cardinality(Pipes) < MaxPipes
  /\ ctxs' = ctxs @@ (PipeId(Cardinality(Pipes) + 1) :> NewCtx(x))
  /\ UNCHANGED << stack, bound, folds, invoked , svars, xvars >>

\* pipe(p), p a promise
PipePromise(p) ==
  /\ Cardinality(Pipes) < MaxPipes
  /\ ctxs' = ctxs @@ (PipeId(Cardinality(Pipes) + 1) :> PromiseCtx(p))
  /\ UNCHANGED << stack, bound, folds, invoked , svars, xvars >>

\* op(...args): the apply trap returns a new operation value, bound to args
Bind(f, a) ==
  /\ Bound(f, a) \notin bound
  /\ bound' = bound \cup {Bound(f, a)}
  /\ UNCHANGED << ctxs, stack, folds, invoked , svars, xvars >>

\* faulty variant of Chain: declaring an operation calls its function at once
ChainEager(c, ops) ==
  /\ c \in Pipes
  /\ Len(stack) < MaxStack
  /\ Len(ctxs[c].steps) + Len(ops) <= MaxSteps
  /\ stack' = PushCtx(stack, c)
  /\ ctxs' = DeclareAll(ctxs, PushCtx(stack, c), ops)
  /\ invoked' = invoked + Len(ops)
  /\ UNCHANGED << bound, folds , svars, xvars >>

\* faulty variant of Chain: a pending run reads the step list as it goes
\* (for (const f of ctx.steps) v = await f(v)), so it also gets the steps
\* declared after it was called
ChainLive(c, ops) ==
  /\ c \in Pipes
  /\ Len(stack) < MaxStack
  /\ Len(ctxs[c].steps) + Len(ops) <= MaxSteps
  /\ stack' = PushCtx(stack, c)
  /\ ctxs' = DeclareAll(ctxs, PushCtx(stack, c), ops)
  /\ folds' = [f \in DOMAIN folds |->
                 IF folds[f].ctx = c /\ folds[f].st \in {"ready", "called", "nested"}
                 THEN [folds[f] EXCEPT !.steps = @ \o ops]
                 ELSE folds[f]]
  /\ UNCHANGED << bound, invoked , svars, xvars >>

\* the statement  h | op1 | ... | opk : the handle's Symbol.toPrimitive pushes its
\* context, then each operation's Symbol.toPrimitive appends a step to the
\* context on top of the registry
Chain(c, ops) ==
  /\ c \in Pipes
  /\ Len(stack) < MaxStack
  /\ Len(ctxs[c].steps) + Len(ops) <= MaxSteps
  /\ stack' = PushCtx(stack, c)
  /\ ctxs' = DeclareAll(ctxs, PushCtx(stack, c), ops)
  /\ UNCHANGED << bound, folds, invoked , svars, xvars >>

\* faulty variant of Run: a handle that has been run to its end answers with the
\* value of that run and calls nothing again (memoization)
RunMemo(c) ==
  /\ c \in Pipes
  /\ Cardinality(TopFolds) < MaxRuns
  /\ LET old == {f \in TopFolds : folds[f].ctx = c /\ folds[f].st = "done"}
         new == NewFold(ctxs, c, "run")
     IN  folds' = folds @@ (<< Cardinality(TopFolds) + 1 >> :>
                   IF old = {} THEN new
                   ELSE [new EXCEPT !.st = "done",
                                    !.acc = folds[CHOOSE f \in old : TRUE].acc])
  /\ UNCHANGED << ctxs, stack, bound, invoked , svars, xvars >>

\* handle.run(), called by the program
Run(c) ==
  /\ c \in Pipes
  /\ Cardinality(TopFolds) < MaxRuns
  /\ folds' = folds @@ (<< Cardinality(TopFolds) + 1 >> :> NewFold(ctxs, c, "run"))
  /\ UNCHANGED << ctxs, stack, bound, invoked , svars, xvars >>

\* ------------------------------------------------------------ a step function
\* faulty variant of StepCall: the next step is called without waiting for the pending
\* one (steps.map(f => f(v)))
StepCallEager(f) ==
  /\ f \in DOMAIN folds
  /\ folds[f].st \in {"ready", "called"}
  /\ Len(folds[f].ins) < Len(folds[f].steps)
  /\ LET r   == folds[f]
         n   == Len(r.ins) + 1
         out == Call(r.steps[n], r.acc, ctxs, stack, NestedId(f, n))
         fs1 == [folds EXCEPT ![f] = [r EXCEPT !.ins = Append(r.ins, [op |-> r.steps[n],
                                                                    v  |-> r.acc]),
                                               !.before = Len(stack),
                                               !.res = out.res,
                                               !.i = n,
                                               !.st = "called"]]
     IN  /\ invoked' = invoked + 1
         /\ ctxs' = out.ctxs
         /\ stack' = out.stack
         /\ folds' = IF out.res.k = "throw"
                     THEN Settle(fs1, f, FALSE, 0, out.res.v)
                     ELSE fs1
  /\ UNCHANGED << bound, svars, xvars >>

\* async (v) => { const before = stack.length;
\*                const result = await Promise.resolve(fn(v, ...args)); ...
\* up to the await: fn is called; a synchronous throw rejects the step at once
StepCall(f) ==
  /\ f \in DOMAIN folds
  /\ folds[f].st = "ready"
  /\ LET r   == folds[f]
         out == Call(r.steps[r.i], r.acc, ctxs, stack, NestedId(f, r.i))
         fs1 == [folds EXCEPT ![f] = [r EXCEPT !.ins = Append(r.ins, [op |-> r.steps[r.i],
                                                                    v  |-> r.acc]),
                                               !.before = Len(stack),
                                               !.res = out.res,
                                               !.st = "called"]]
     IN  /\ invoked' = invoked + 1
         /\ ctxs' = out.ctxs
         /\ stack' = out.stack
         /\ folds' = IF out.res.k = "throw"
                     THEN Settle(fs1, f, FALSE, 0, out.res.v)
                     ELSE fs1
  /\ UNCHANGED << bound, svars, xvars >>

\* faulty variant of StepResume: run is called on every truthy result that has
\* a run property, callable or not (if (result && result.run)), which throws
\* the TypeError of calling what is no function
StepResumeRunsAll(f) ==
  /\ f \in DOMAIN folds
  /\ folds[f].st = "called"
  /\ LET r == folds[f]
     IN  CASE r.res.k = "reject" ->
                /\ folds' = Settle(folds, f, FALSE, 0, r.res.v)
                /\ UNCHANGED stack
           [] r.res.k = "handle" ->
                /\ folds' = Nest(folds, ctxs, f, r.res.v, "handle")
                /\ UNCHANGED stack
           [] r.res.k = "runnable" ->
                /\ folds' = Settle(folds, f, TRUE, r.res.v, "")
                /\ UNCHANGED stack
           [] r.res.k = "object" ->
                /\ folds' = Settle(folds, f, FALSE, 0, "TypeError")
                /\ UNCHANGED stack
           [] r.res.k \in {"val", "promise"} ->
                IF r.res.v = 0 /\ Len(stack) > r.before
                THEN /\ stack' = SubSeq(stack, 1, Len(stack) - 1)
                     /\ folds' = Nest(folds, ctxs, f, stack[Len(stack)], "sentinel")
                ELSE /\ folds' = Settle(folds, f, TRUE, r.res.v, "")
                     /\ UNCHANGED stack
  /\ UNCHANGED << ctxs, bound, invoked , svars, xvars >>

\* faulty variant of StepResume: the sentinel branch reads the top context
\* without removing it (stack.at(-1) instead of stack.pop())
StepResumeKeeps(f) ==
  /\ f \in DOMAIN folds
  /\ folds[f].st = "called"
  /\ LET r == folds[f]
     IN  CASE r.res.k = "reject" ->
                folds' = Settle(folds, f, FALSE, 0, r.res.v)
           [] r.res.k = "handle" ->
                folds' = Nest(folds, ctxs, f, r.res.v, "handle")
           [] r.res.k \in {"val", "promise"} ->
                IF r.res.v = 0 /\ Len(stack) > r.before
                THEN folds' = Nest(folds, ctxs, f, stack[Len(stack)], "sentinel")
                ELSE folds' = Settle(folds, f, TRUE, r.res.v, "")
  /\ UNCHANGED << stack, ctxs, bound, invoked , svars, xvars >>

\* faulty variant of StepResume: the sentinel branch takes the oldest registry entry
\* (stack.shift()) instead of the newest
StepResumeShift(f) ==
  /\ f \in DOMAIN folds
  /\ folds[f].st = "called"
  /\ LET r == folds[f]
     IN  CASE r.res.k = "reject" ->
                /\ folds' = Settle(folds, f, FALSE, 0, r.res.v)
                /\ UNCHANGED stack
           [] r.res.k = "handle" ->
                /\ folds' = Nest(folds, ctxs, f, r.res.v, "handle")
                /\ UNCHANGED stack
           [] r.res.k \in {"val", "promise"} ->
                IF r.res.v = 0 /\ Len(stack) > r.before
                THEN /\ stack' = Tail(stack)
                     /\ folds' = Nest(folds, ctxs, f, Head(stack), "sentinel")
                ELSE /\ folds' = Settle(folds, f, TRUE, r.res.v, "")
                     /\ UNCHANGED stack
  /\ UNCHANGED << ctxs, bound, invoked , svars, xvars >>

\* ... after the await:
\*   if (result === 0 && stack.length > before) { ctx = stack.pop(); fold ctx }
\*   if (result && typeof result.run === 'function') return await result.run();
\*     (a handle's run() starts the fold of its context; any other object's
\*      run() gives that object's result)
\*   return result; }
StepResume(f) ==
  /\ f \in DOMAIN folds
  /\ folds[f].st = "called"
  /\ LET r == folds[f]
     IN  CASE r.res.k = "reject" ->
                /\ folds' = Settle(folds, f, FALSE, 0, r.res.v)
                /\ UNCHANGED stack
           [] r.res.k = "handle" ->
                /\ folds' = Nest(folds, ctxs, f, r.res.v, "handle")
                /\ UNCHANGED stack
           [] r.res.k = "runnable" ->
                /\ folds' = Settle(folds, f, TRUE, r.res.v, "")
                /\ UNCHANGED stack
           [] r.res.k = "object" ->
                /\ folds' = Settle(folds, f, TRUE, r.res.v, "")
                /\ UNCHANGED stack
           [] r.res.k \in {"val", "promise"} ->
                IF r.res.v = 0 /\ Len(stack) > r.before
                THEN /\ stack' = SubSeq(stack, 1, Len(stack) - 1)
                     /\ folds' = Nest(folds, ctxs, f, stack[Len(stack)], "sentinel")
                ELSE /\ folds' = Settle(folds, f, TRUE, r.res.v, "")
                     /\ UNCHANGED stack
  /\ UNCHANGED << ctxs, bound, invoked , svars, xvars >>

\* the operation values the program can put in a chain, given the functions F
\* it has lifted (add is only ever declared with its argument bound)
OpVals(F) == {Bare(f) : f \in F \ {"add"}} \cup bound
Chains(F) == {<< a >> : a \in OpVals(F)} \cup {<< a, b >> : a, b \in OpVals(F)}

Step ==
  \/ \E f \in DOMAIN folds : StepCall(f)
  \/ \E f \in DOMAIN folds : StepResume(f)

\* The program builds its pipelines, one chain statement each, then calls run()
\* on them at any moments: any interleaving of run() calls with the suspended
\* steps.
ConcVals == {1}
ConcFns  == {"add", "rejectPromise", "throwError", "auto"}
Next ==
  \/ folds = << >> /\ \E x \in ConcVals : Pipe(x)
  \/ folds = << >> /\ \E a \in BindArgs : Bind("add", a)
  \/ folds = << >> /\ \E c \in Pipes, ops \in Chains(ConcFns) :
                        ctxs[c].steps = << >> /\ Chain(c, ops)
  \/ \E c \in Pipes : Run(c)
  \/ Step

Spec == Init /\ [][Next]_vars

\* The program of src/test.js: pipelines are built, run and awaited one after
\* the other; nothing else happens while a run is pending.
SeqFns == {"inc", "asyncDouble", "calculate", "researchAgent", "auto"}
Spent  == \A c \in Pipes : \E f \in TopFolds : folds[f].ctx = c
NextSeq ==
  \/ Idle /\ Spent /\ \E x \in InitVals : Pipe(x)
  \/ Idle /\ \E c \in Pipes, ops \in Chains(SeqFns) : Chain(c, ops)
  \/ Idle /\ \E c \in Pipes : Run(c)
  \/ Step

SpecSeq == Init /\ [][NextSeq]_vars

\* ------------------------------------------------------ two environments
\* the environment e = 1, 2: the one the program is working with is held in
\* the variables, the other one in `other`
Env(e) ==
  IF cur = e
  THEN [ctxs |-> ctxs, stack |-> stack, bound |-> bound, folds |-> folds,
        invoked |-> invoked]
  ELSE other

\* faulty variant of Switch: the registry is one array shared by all
\* environments (const stack = [] at module level)
SwitchSharedStack ==
  /\ cur' = 3 - cur
  /\ ctxs' = other.ctxs
  /\ bound' = other.bound
  /\ folds' = other.folds
  /\ invoked' = other.invoked
  /\ other' = [ctxs |-> ctxs, stack |-> stack, bound |-> bound, folds |-> folds,
               invoked |-> invoked]
  /\ UNCHANGED << stack, derr, lifted, taken, svars >>

\* the program goes on with the pipe and asPipe of the other environment
\* (env1 = createAsPipes(), env2 = createAsPipes()): each closure has its own
\* stack, and every context and operation value belongs to the closure that
\* made it
Switch ==
  /\ cur' = 3 - cur
  /\ ctxs' = other.ctxs
  /\ stack' = other.stack
  /\ bound' = other.bound
  /\ folds' = other.folds
  /\ invoked' = other.invoked
  /\ other' = [ctxs |-> ctxs, stack |-> stack, bound |-> bound, folds |-> folds,
               invoked |-> invoked]
  /\ UNCHANGED << derr, lifted, taken, svars >>

\* A program working with two environments, one pipeline in each, turning from
\* one to the other at any moment, also while runs are pending.
EnvFns == {"inc", "auto"}
NextEnv ==
  \/ Switch
  \/ Idle /\ Pipes = {} /\ \E x \in ConcVals : Pipe(x)
  \/ Idle /\ \E c \in Pipes, op \in OpVals(EnvFns) : Chain(c, << op >>)
  \/ Idle /\ \E c \in Pipes : Run(c)
  \/ Step

SpecEnv == Init /\ [][NextEnv]_vars

\* --------------------------------------------------------- asPipe(object)
\* a member of an object, or what reading a name of asPipe(object) gives:
\* a function, an operation value (asPipe(fn), as Bare(fn)), a number, undefined
Member(t, f, n) == [typ |-> t, fn |-> f, n |-> n]
FnMember(f)     == Member("function", f, 0)
NumMember(n)    == Member("number", "", n)
NoMember        == Member("undefined", "", 0)

\* asPipe(fn): the operation value of fn
AsPipe(f) == Member("operation", f, 0)

\* fn.bind(object): only a function that reads its receiver behaves differently
BindThis(f) == IF f = "scale" THEN "scaleBound" ELSE f

\* the objects the program lifts. plain: constructor === Object (an object
\* literal); the counter is an instance of a class
Objs ==
  [o \in {"calculator", "record", "counter"} |->
     CASE o = "calculator" ->
            [plain |-> TRUE,
             members |-> ("add" :> FnMember("add") @@ "inc" :> FnMember("inc")
                          @@ "value" :> NumMember(42))]
       [] o = "record" ->
            [plain |-> TRUE,
             members |-> ("scale" :> FnMember("scale") @@ "k" :> NumMember(2))]
       [] o = "counter" ->
            [plain |-> FALSE,
             members |-> ("scale" :> FnMember("scale") @@ "k" :> NumMember(2))]]

\* faulty variant of ObjGet: every function member is bound to the object
ObjGetBinds(obj, name) ==
  IF name \notin DOMAIN obj.members THEN NoMember
  ELSE IF obj.members[name].typ = "function"
       THEN AsPipe(BindThis(obj.members[name].fn))
       ELSE obj.members[name]

\* the get trap of asPipe(object): asPipe(object)[name]
ObjGet(obj, name) ==
  IF name \notin DOMAIN obj.members THEN NoMember
  ELSE IF obj.members[name].typ = "function"
       THEN IF obj.plain
            THEN AsPipe(obj.members[name].fn)
            ELSE AsPipe(BindThis(obj.members[name].fn))
       ELSE obj.members[name]

\* const { name } = asPipe(object)
Lift(o, name) ==
  LET l == [obj |-> o, name |-> name, got |-> ObjGet(Objs[o], name)]
  IN  /\ l \notin lifted
      /\ lifted' = lifted \cup {l}
      /\ UNCHANGED << ctxs, stack, bound, folds, invoked, derr, other, cur, taken, svars >>

\* the operation values the program has from asPipe(object)
LiftedFns == {l.got.fn : l \in {m \in lifted : m.got.typ = "operation"}}
LiftedOps == {Bare(f) : f \in LiftedFns \ {"add"}} \cup bound

\* A program that lifts objects, reads members of the lifted objects and
\* declares the operations it got on one pipeline, which it runs.
NextObj ==
  \/ \E o \in DOMAIN Objs : \E name \in DOMAIN Objs[o].members : Lift(o, name)
  \/ "add" \in LiftedFns /\ \E a \in BindArgs : Bind("add", a)
  \/ Idle /\ Pipes = {} /\ \E x \in ConcVals : Pipe(x)
  \/ Idle /\ \E c \in Pipes, op \in LiftedOps : Chain(c, << op >>)
  \/ Idle /\ \E c \in Pipes : Run(c)
  \/ Step

SpecObj == Init /\ [][NextObj]_vars

\* ------------------------------------------------------------------ pipeFn
\* the chains the lambdas given to pipeFn declare on their handle,
\* (v) => v | op1 | ... | opk; a bound operation is made by the lambda itself
FnBodyOps == {Bare("inc"), Bare("throwError"), Bound("add", <<-1>>)}
FnBodies  == {<< a >> : a \in FnBodyOps} \cup {<< a, b >> : a, b \in FnBodyOps}

\* pipeFn(fn)(x), up to its await:
\*   const p = pipe(args[0]); fn(p, ...args.slice(1)); return await p.run();
\* where fn declares the chain ops on p
PipeFnCall(x, ops) ==
  LET c   == PipeId(Cardinality(Pipes) + 1)
      st1 == PushCtx(stack, c)
      cx1 == DeclareAll(ctxs @@ (c :> NewCtx(x)), st1, ops)
  IN  /\ Cardinality(Pipes) < MaxPipes
      /\ Cardinality(TopFolds) < MaxRuns
      /\ Len(stack) < MaxStack
      /\ ctxs' = cx1
      /\ stack' = st1
      /\ bound' = bound \cup {ops[i] : i \in {j \in 1..Len(ops) : ops[j].args # << >>}}
      /\ folds' = folds @@ (<< Cardinality(TopFolds) + 1 >> :> NewFold(cx1, c, "run"))
      /\ UNCHANGED << invoked, svars, xvars >>

\* A program that invokes functions made by pipeFn at any moments, also while
\* earlier invocations are pending.
NextFn ==
  \/ \E x \in InitVals, ops \in FnBodies : PipeFnCall(x, ops)
  \/ Step

SpecFn == Init /\ [][NextFn]_vars

\* ------------------------------------------- declarations during a run
\* A program with one pipeline that goes on declaring steps on its handle and
\* calling run() while earlier runs are pending.
LateFns == {"inc", "asyncDouble", "rejectPromise"}
NextLate ==
  \/ Pipes = {} /\ \E x \in InitVals : Pipe(x)
  \/ \E c \in Pipes, op \in OpVals(LateFns) : Chain(c, << op >>)
  \/ \E c \in Pipes : Run(c)
  \/ Step

SpecLate == Init /\ [][NextLate]_vars

\* ------------------------------------------------ promises as initial values
\* A program whose pipelines start from a value, from a pending promise or from
\* a rejected promise; each is declared in one chain statement, or not at all,
\* and run and awaited, one run at a time.
InitPromises == {Pending(2), Reject("Init error")}
InitFns      == {"inc", "asyncDouble", "calculate"}
NextInit ==
  \/ folds = << >> /\ Pipe(1)
  \/ folds = << >> /\ \E p \in InitPromises : PipePromise(p)
  \/ folds = << >> /\ \E c \in Pipes, ops \in Chains(InitFns) :
                        ctxs[c].steps = << >> /\ Chain(c, ops)
  \/ Idle /\ \E c \in Pipes : Run(c)
  \/ Step

SpecInit == Init /\ [][NextInit]_vars

\* ------------------------------------------- failures in composed steps
\* The sequential program with composed operations whose nested pipeline has
\* a failing step.
NestFns == {"inc", "calcFail", "autoFail"}
NextNest ==
  \/ Idle /\ Spent /\ \E x \in ConcVals : Pipe(x)
  \/ Idle /\ \E c \in Pipes, ops \in Chains(NestFns) : Chain(c, ops)
  \/ Idle /\ \E c \in Pipes : Run(c)
  \/ Step

SpecNest == Init /\ [][NextNest]_vars

\* ------------------------------------------- what a step does with a result
\* The sequential program with functions that return objects with and without
\* a callable run, and the value 0.
RunFns == {"inc", "job", "tagged", "zero", "calculate"}
NextRun ==
  \/ Idle /\ Pipes = {} /\ \E x \in InitVals : Pipe(x)
  \/ Idle /\ \E c \in Pipes, op \in OpVals(RunFns) : Chain(c, << op >>)
  \/ Idle /\ \E c \in Pipes : Run(c)
  \/ Step

SpecRun == Init /\ [][NextRun]_vars

\* ------------------------------------- declarations and pops outside a chain
\* faulty variant of Declare: on an empty registry a context is begun for the
\* step instead of failing
DeclareBegins(op) ==
  /\ IF stack = << >>
     THEN /\ Cardinality(Pipes) < MaxPipes
          /\ stack' = << PipeId(Cardinality(Pipes) + 1) >>
          /\ ctxs' = ctxs @@ (PipeId(Cardinality(Pipes) + 1) :>
                              [NewCtx(0) EXCEPT !.steps = << op >>])
     ELSE /\ Len(ctxs[stack[Len(stack)]].steps) <= MaxSteps
          /\ ctxs' = AppendStep(ctxs, stack, op)
          /\ UNCHANGED stack
  /\ UNCHANGED << bound, folds, invoked, derr, other, cur, lifted, taken, svars >>

\* faulty variant of Declare: a context that has been run takes no more steps,
\* the declaration fails
DeclareFrozen(op) ==
  /\ IF stack = << >> \/ \E f \in DOMAIN folds : folds[f].ctx = stack[Len(stack)]
     THEN /\ derr < MaxFail
          /\ derr' = derr + 1
          /\ UNCHANGED ctxs
     ELSE /\ Len(ctxs[stack[Len(stack)]].steps) <= MaxSteps
          /\ ctxs' = AppendStep(ctxs, stack, op)
          /\ UNCHANGED derr
  /\ UNCHANGED << stack, bound, folds, invoked, other, cur, lifted, taken, svars >>

\* an operation value coerced where no handle was coerced before it in the
\* expression (0 | op):  stack.at(-1).steps.push(step).  On an empty registry
\* stack.at(-1) is undefined and reading .steps throws a TypeError.
Declare(op) ==
  /\ IF stack = << >>
     THEN /\ derr < MaxFail
          /\ derr' = derr + 1
          /\ UNCHANGED ctxs
     ELSE /\ Len(ctxs[stack[Len(stack)]].steps) <= MaxSteps
          /\ ctxs' = AppendStep(ctxs, stack, op)
          /\ UNCHANGED derr
  /\ UNCHANGED << stack, bound, folds, invoked, other, cur, lifted, taken, svars >>

\* take(_ignored), exported by the environment:  const ctx = stack.pop();
\* return ctx?.token ?? _ignored
Take ==
  /\ stack # << >>
  /\ stack' = SubSeq(stack, 1, Len(stack) - 1)
  /\ UNCHANGED << ctxs, bound, folds, invoked, xvars, svars >>

\* faulty variant of TakeReturn: the handle of the oldest registry entry
\* (stack[0]?.token ?? _ignored)
TakeReturnBottom(st, x) == IF st = << >> THEN Val(x) ELSE Handle(st[1])

\* what take(x) returns, st being the registry before the pop:
\* ctx?.token ?? _ignored
TakeReturn(st, x) == IF st = << >> THEN Val(x) ELSE Handle(st[Len(st)])

\* const h = take(x), x a plain value
TakeCall(x) ==
  /\ Len(taken) < MaxTakes
  /\ taken' = Append(taken, TakeReturn(stack, x))
  /\ stack' = IF stack = << >> THEN stack ELSE SubSeq(stack, 1, Len(stack) - 1)
  /\ UNCHANGED << ctxs, bound, folds, invoked, derr, other, cur, lifted, svars >>

\* const h = take(pipe(x) | op1 | ... | opk): the argument is evaluated first,
\* which begins a pipeline, pushes its context and declares the steps, and has
\* the value 0; then take pops
TakeChain(x, ops) ==
  LET c   == PipeId(Cardinality(Pipes) + 1)
      st1 == PushCtx(stack, c)
      cx1 == DeclareAll(ctxs @@ (c :> NewCtx(x)), st1, ops)
  IN  /\ Cardinality(Pipes) < MaxPipes
      /\ Len(taken) < MaxTakes
      /\ ctxs' = cx1
      /\ taken' = Append(taken, TakeReturn(st1, 0))
      /\ stack' = SubSeq(st1, 1, Len(st1) - 1)
      /\ UNCHANGED << bound, folds, invoked, derr, other, cur, lifted, svars >>

\* the handles take has returned to the program
TakenHandles == {taken[i].v : i \in {j \in 1..Len(taken) : taken[j].k = "handle"}}

\* A program that captures pipelines with take, keeps what take returns and
\* runs the handles it got; it also has a pipeline of its own, declared in
\* chain statements, and calls take with a plain value.
TakeFns == {"inc", "asyncDouble"}
NextTake ==
  \/ Idle /\ \E x \in ConcVals, ops \in Chains(TakeFns) : TakeChain(x, ops)
  \/ Idle /\ \E x \in InitVals : TakeCall(x)
  \/ Idle /\ Pipes \ TakenHandles = {} /\ \E x \in InitVals : Pipe(x)
  \/ Idle /\ \E c \in Pipes \ TakenHandles, op \in OpVals(TakeFns) : Chain(c, << op >>)
  \/ Idle /\ \E c \in TakenHandles : Run(c)
  \/ Step

SpecTake == Init /\ [][NextTake]_vars

\* A program with one pipeline that also declares outside a chain and calls
\* take(), between runs; its chain statements declare one operation each.
RegFns == {"inc", "calculate"}
NextReg ==
  \/ Idle /\ Pipes = {} /\ \E x \in ConcVals : Pipe(x)
  \/ Idle /\ \E c \in Pipes, op \in OpVals(RegFns) : Chain(c, << op >>)
  \/ Idle /\ \E op \in OpVals(RegFns) : Declare(op)
  \/ Idle /\ Take
  \/ Idle /\ \E c \in Pipes : Run(c)
  \/ Step

SpecReg == Init /\ [][NextReg]_vars

\* ====================================================================
\* Properties
\* ====================================================================

\* What a step list computes from v when every function is applied to the
\* previous result, a composed function standing for its whole body: the outcome
\* sn(...s1(v)), or the first failure.
Outcome(pr) ==
  IF pr.k \in {"val", "promise", "runnable", "object"}
                                 THEN [ok |-> TRUE,  v |-> pr.v, e |-> ""]
                                 ELSE [ok |-> FALSE, v |-> 0,    e |-> pr.v]

RECURSIVE Expect(_, _)
Expect(ops, v) ==
  IF ops = << >> THEN [ok |-> TRUE, v |-> v, e |-> ""]
  ELSE LET op == Head(ops)
           r  == IF op.fn \in PlainFns \cup MethodFns \cup ObjectFns
                 THEN Outcome(PlainResult(op, v))
                                       ELSE Expect(Body(op.fn), v)
       IN  IF r.ok THEN Expect(Tail(ops), r.v) ELSE r

Settled(f) == folds[f].st \in {"done", "failed"}

\* C1: run() on a pipeline with initial value v and steps [s1..sn], none of
\* which fails, never rejects and resolves to sn(...s1(v)) (to v when n = 0),
\* whether the functions return values or pending promises.
C1_RunIsComposition ==
  \A f \in TopFolds :
    LET r == folds[f]
        x == Expect(r.steps, ctxs[r.ctx].v)
    IN  x.ok => /\ r.st # "failed"
                /\ r.st = "done" => r.acc = x.v

\* C1 witness: a run of << inc, asyncDouble >> (a synchronous and an
\* asynchronous step) on 2 has resolved to 6, and a run of a pipeline without
\* steps has resolved to its initial value.
C1_Witness ==
  /\ \E f \in TopFolds :
       /\ folds[f].st = "done" /\ folds[f].acc = 6
       /\ folds[f].steps = << Bare("inc"), Bare("asyncDouble") >>
  /\ \E f \in TopFolds :
       /\ folds[f].st = "done" /\ folds[f].steps = << >>
       /\ folds[f].acc = ctxs[folds[f].ctx].v

\* C3: a step whose function begins a nested pipeline, declares a and b on it
\* and returns the handle settles to b(a(x)) for its argument x, at every
\* position of every fold and at every nesting depth, when the outer pipeline
\* is run on its own.
C3_HandleStepIsComposition ==
  \A f \in DOMAIN folds :
    LET r == folds[f]
    IN  /\ \A j \in 1..Len(r.outs) :
             r.ins[j].op.fn \in HandleFns =>
               r.outs[j] = Expect(Body(r.ins[j].op.fn), r.ins[j].v).v
        /\ r.st = "nested" /\ r.steps[r.i].fn \in HandleFns =>
             /\ folds[NestedId(f, r.i)].via = "handle"
             /\ folds[NestedId(f, r.i)].ctx = NestedId(f, r.i)
             /\ folds[NestedId(f, r.i)].steps = Body(r.steps[r.i].fn)

\* C3 witness: researchAgent (whose first step is itself composed) was the
\* second step of a run on 1, after inc, and settled to 3 = ((2 - 1) * 2) + 1.
C3_Witness ==
  \E f \in TopFolds :
    /\ folds[f].st = "done"
    /\ folds[f].steps = << Bare("inc"), Bare("researchAgent") >>
    /\ folds[f].ins[2].v = 2
    /\ folds[f].outs[2] = 3

\* C4: a step whose function returns 0 after the registry grew pops the top
\* context, folds it and settles to that result; with no other activity the
\* popped context is the one its function built, the registry is back to its
\* length at the start of the step, and for a body begin(x) | a | b the step
\* settles to b(a(x)).
C4_SentinelStepIsComposition ==
  \A f \in DOMAIN folds :
    LET r == folds[f]
    IN  /\ \A j \in 1..Len(r.outs) :
             r.ins[j].op.fn \in SentinelFns =>
               /\ r.outs[j] = Expect(Body(r.ins[j].op.fn), r.ins[j].v).v
               /\ folds[NestedId(f, j)].via = "sentinel"
               /\ folds[NestedId(f, j)].ctx = NestedId(f, j)
        /\ r.st = "called" /\ r.steps[r.i].fn \in SentinelFns =>
             r.res.v = 0 /\ Len(stack) > r.before
        /\ r.st = "nested" /\ r.steps[r.i].fn \in SentinelFns =>
             /\ folds[NestedId(f, r.i)].via = "sentinel"
             /\ folds[NestedId(f, r.i)].ctx = NestedId(f, r.i)
             /\ \A k \in 1..Len(stack) : stack[k] # NestedId(f, r.i)

\* C4 witness: auto was called on 2 while the registry held an older entry and
\* settled to 6 = (2 + 1) * 2, not to 0.
C4_Witness ==
  \E f \in TopFolds :
    /\ folds[f].st = "done"
    /\ Len(folds[f].steps) = 1
    /\ folds[f].ins[1] = [op |-> Bare("auto"), v |-> 2]
    /\ folds[f].outs[1] = 6
    /\ folds[<< f[1], 1 >>].via = "sentinel"
    /\ Len(stack) >= 1

Executing(f) == folds[f].st \in {"called", "nested"}

\* C2: if a step throws or returns a rejected promise, the fold rejects with
\* exactly that error (a nested fold's rejection is the step's rejection), and
\* no later step of that fold is ever called.
C2_StepFailureRejectsRun ==
  \A f \in DOMAIN folds :
    LET r == folds[f]
    IN  /\ r.res.k = "throw"  => r.st = "failed"
        /\ r.res.k = "reject" => r.st \in {"called", "failed"}
        /\ r.st = "failed" =>
             /\ Len(r.ins) = r.i
             /\ Len(r.outs) = r.i - 1
             /\ IF r.res.k \in {"throw", "reject"}
                THEN r.err = r.res.v
                ELSE /\ folds[NestedId(f, r.i)].st = "failed"
                     /\ r.err = folds[NestedId(f, r.i)].err

\* C2 witness: a run() of two steps has rejected with the first step's error,
\* thrown or rejected, and its second step was never called.
C2_Witness ==
  /\ \E f \in TopFolds :
       /\ folds[f].st = "failed" /\ folds[f].err = "Async error"
       /\ Len(folds[f].steps) = 2 /\ Len(folds[f].ins) = 1
       /\ folds[f].steps[1] = Bare("rejectPromise")
  /\ \E f \in TopFolds :
       /\ folds[f].st = "failed" /\ folds[f].err = "Test error"
       /\ Len(folds[f].steps) = 2 /\ Len(folds[f].ins) = 1
       /\ folds[f].steps[1] = Bare("throwError")

\* C5: in every interleaving of run() calls, a context popped by a step's
\* auto-flattening is the context that this step's own function call pushed.
C5_PopsOwnContext ==
  \A k \in DOMAIN folds : folds[k].via = "sentinel" => folds[k].ctx = k

\* C6: what a run() settles to depends only on its pipeline's initial value and
\* steps: it is what that pipeline computes alone, whatever run() of another
\* pipeline of the environment is pending, also when a step returns 0 or is
\* composed.
C6_ResultIsolated ==
  \A f \in TopFolds :
    LET r == folds[f]
        x == Expect(r.steps, ctxs[r.ctx].v)
    IN  (\A g \in TopFolds \ {f} : folds[g].ctx # r.ctx) =>
          /\ r.st = "done"   => x.ok /\ r.acc = x.v
          /\ r.st = "failed" => ~x.ok /\ r.err = x.e

\* C7 as stated: no two step functions of the same context are executing at
\* the same time, whatever run() calls were made on its handle.
C7_NoTwoStepsOfAContext ==
  \A f, g \in DOMAIN folds :
    f # g /\ folds[f].ctx = folds[g].ctx => ~(Executing(f) /\ Executing(g))

\* C7 amended: within one run() call at most one step function is started and
\* not yet settled, and none is while the fold waits to call its next step.
C7_OneStepPerRun ==
  \A f \in DOMAIN folds :
    LET r == folds[f]
    IN  /\ Len(r.ins) <= Len(r.outs) + 1
        /\ r.st \in {"ready", "done"} => Len(r.ins) = Len(r.outs)
        /\ Executing(f) => Len(r.ins) = Len(r.outs) + 1

\* C7 witness: two run() calls on the same handle are pending together, each
\* with exactly one step executing, one of them already at its second step.
C7_Witness ==
  \E f, g \in TopFolds :
    /\ f # g /\ folds[f].ctx = folds[g].ctx
    /\ Executing(f) /\ Executing(g)
    /\ folds[f].i = 2 /\ Len(folds[f].outs) = 1

\* C8: within one run() the j-th call is the j-th declared step, it is made
\* only after the (j-1)-th step has settled, and its argument is that step's
\* settled output (the initial value for the first).
C8_StepsInOrderOnSettledInput ==
  \A f \in DOMAIN folds :
    LET r == folds[f]
    IN  \A j \in 1..Len(r.ins) :
          /\ Len(r.outs) >= j - 1
          /\ r.ins[j].op = ctxs[r.ctx].steps[j]
          /\ r.ins[j].v = IF j = 1 THEN ctxs[r.ctx].v ELSE r.outs[j - 1]

\* C8 witness: the second of two different steps has been called with the
\* first step's output, which differs from the initial value.
C8_Witness ==
  \E f \in TopFolds :
    /\ Len(folds[f].ins) = 2
    /\ folds[f].steps[1] # folds[f].steps[2]
    /\ folds[f].ins[2].v = folds[f].outs[1]
    /\ folds[f].outs[1] # ctxs[folds[f].ctx].v

\* C9: pipe(), binding arguments and declaring steps call no wrapped function:
\* the number of calls changes only in a transition in which a pending fold
\* calls its next step.
C9_OnlyRunsInvoke ==
  [][ invoked' # invoked =>
        \E f \in DOMAIN folds :
          /\ folds[f].st = "ready"
          /\ Len(folds'[f].ins) = Len(folds[f].ins) + 1
          /\ invoked' = invoked + 1 ]_vars

\* C9 witness: two pipelines are declared, one with a bound operation, nothing
\* has been run and no wrapped function has been called.
C9_Witness ==
  /\ folds = << >> /\ invoked = 0 /\ bound # {} /\ stack # << >>
  /\ \E c \in Pipes : Len(ctxs[c].steps) = 2 /\ ctxs[c].steps[1] \in bound

Max(a, b) == IF a >= b THEN a ELSE b

\* C10: take(seq, n) never asks its upstream for more than max(n, 0) elements,
\* whatever the consumer does, also when it drains the take until done.
C10_TakePullsAtMostN ==
  src.pulled <= Max(tk.n, 0)

Min(a, b) == IF a <= b THEN a ELSE b

\* what a drained take(seq, n) must deliver: the first min(n, upstream length)
\* upstream elements, none for n <= 0
FirstOfUpstream ==
  [j \in 1..(IF src.endless THEN Max(tk.n, 0) ELSE Min(Max(tk.n, 0), src.len)) |-> j]

\* C11: a consumer draining take(seq, n), also over a producer that yields
\* forever, comes to its end, having received exactly the first
\* min(n, upstream length) upstream elements in upstream order, and no element
\* at all for n <= 0.
C11_DrainedTakeTerminates ==
  <>(cons = "end" /\ got = FirstOfUpstream)

\* C11 witness: the drain of take(seq, MaxN) over the endless producer has ended
\* with MaxN elements received.
C11_Witness ==
  /\ src.endless /\ tk.n = MaxN
  /\ cons = "end" /\ Len(got) = MaxN

\* C12: evaluating h | op1 | ... | opk appends exactly op1 .. opk, in that order,
\* to the end of the step list of h's own context and changes no other context
\* (nor the initial value), whatever the registry holds; so the chain
\* statements made on one handle accumulate in its context in the order made.
\* (Only a step that coerces h, stack' = PushCtx(stack, c), can be that statement.)
C12_ChainAppendsToOwnContext ==
  [][ \A c \in Pipes :
        stack' = PushCtx(stack, c) =>
          \A ops \in Chains(Fns) :
            Chain(c, ops) =>
              /\ ctxs'[c].steps = ctxs[c].steps \o ops
              /\ ctxs'[c].v = ctxs[c].v
              /\ DOMAIN ctxs' = DOMAIN ctxs
              /\ \A d \in DOMAIN ctxs \ {c} : ctxs'[d] = ctxs[d] ]_vars

\* C12 witness: a second chain statement was made on a handle whose first run
\* left a nested context on the registry: the registry holds the handle's
\* context, the nested one above it and the handle's context again, and the
\* context has the steps of both statements.
C12_Witness ==
  \E c \in Pipes :
    /\ Len(stack) = 3 /\ stack[1] = c /\ stack[3] = c /\ stack[2] \notin Pipes
    /\ Len(ctxs[c].steps) = 2
    /\ \E f \in TopFolds : folds[f].ctx = c /\ Len(folds[f].steps) = 1

\* C13: map(seq, fn) yields exactly one output per upstream element, in upstream
\* order, the i-th output being the settled value of fn applied to the i-th
\* upstream element (the producer's i-th element is i), for a synchronous and
\* for an asynchronous fn; it ends only when the upstream has ended.
C13_MapYieldsFnOfEach ==
  (rs.st = "stream" /\ Len(gens) = 1 /\ gens[1].kind = "map") =>
    /\ Len(got) = src.pulled
    /\ \A i \in 1..Len(got) : got[i] = Await(ElemResult(gens[1].fn, i)).v
    /\ cons = "end" => src.pulled = src.len

\* C13 witness: the collect of map(asyncDouble) over MaxLen elements has ended
\* with the MaxLen doubled elements.
C13_Witness ==
  /\ Len(gens) = 1 /\ gens[1].kind = "map" /\ gens[1].fn = "asyncDouble"
  /\ cons = "end" /\ got = [i \in 1..MaxLen |-> 2 * i]

\* the first n elements of the producer
Items(n) == [i \in 1..n |-> i]

\* xs with fn applied to every element
Mapped(fn, xs) == [i \in 1..Len(xs) |-> Await(ElemResult(fn, xs[i])).v]

\* the elements of xs for which the predicate's settled result is truthy
Passing(p, xs) == SelectSeq(xs, LAMBDA x : Await(ElemResult(p, x)).v)

\* C14: filter(seq, predicate) yields exactly the upstream elements whose awaited
\* predicate result is truthy, unchanged and in upstream order, for a
\* synchronous and for an asynchronous predicate, and ends only when the
\* upstream has ended; after a map, these are the passing elements of the
\* mapped sequence.
C14_FilterYieldsPassing ==
  LET n == Len(gens)
      f == gens[n]
      upstream == IF n = 2 THEN Mapped(gens[1].fn, Items(src.pulled))
                           ELSE Items(src.pulled)
  IN  ( /\ rs.st = "stream" /\ n >= 1
        /\ f.kind = "filter" /\ f.fn \in {"gt5", "asyncIsEven"} ) =>
        /\ got = Passing(f.fn, upstream)
        /\ cons = "end" => src.pulled = src.len

\* C14 witness: [1, 2, 3, 4] through map(x * 2) then filter(x > 5) has been
\* collected to its end and gave [6, 8].
C14_Witness ==
  /\ src.len = 4 /\ Len(gens) = 2
  /\ gens[1].kind = "map" /\ gens[1].fn = "double"
  /\ gens[2].kind = "filter" /\ gens[2].fn = "gt5"
  /\ cons = "end" /\ got = << 6, 8 >>

\* reducer(a, x), settled
Reduced(fn, a, x) == Await(ReducerResult(fn, a, x)).v

\* C15: scan(seq, reducer, initial) yields one output per upstream element; with
\* initial provided the i-th output is the left fold of the first i elements
\* from initial, with initial unset the first output is the first element and
\* every later output is reducer(previous output, element).
C15_ScanIsLeftFold ==
  ( /\ rs.st = "stream" /\ Len(gens) = 1 /\ gens[1].kind = "scan"
    /\ gens[1].fn \in {"sum", "asyncSum", "noReturn"} ) =>
    /\ Len(got) = src.pulled
    /\ \A i \in 1..Len(got) :
         got[i] = IF i > 1 THEN Reduced(gens[1].fn, got[i - 1], i)
                  ELSE IF gens[1].arg = Undefined THEN 1
                  ELSE Reduced(gens[1].fn, gens[1].arg, 1)

Last(xs) == xs[Len(xs)]

\* C16: reduce(seq, reducer, initial) settles only after its upstream has ended,
\* to the last value scan(seq, reducer, initial) yields over the elements it
\* received (all the producer's elements, mapped if a map precedes it), and to
\* initial itself when that upstream is empty; run() of the pipeline ending in
\* that reduce is fulfilled with this value.
C16_ReduceIsLastOfScan ==
  rs.st = "value" =>
    /\ IF gens = << >>
       THEN src.pulled = src.len /\ rs.ins = Items(src.len)
       ELSE gens[Len(gens)].pc = "done"
    /\ (Len(gens) = 1 /\ gens[1].kind = "map") =>
         rs.ins = Mapped(gens[1].fn, Items(src.len))
    /\ rs.val = IF rs.ins = << >> THEN rs.init
                ELSE Last(ScanSeq(NewStage("scan", rs.red, rs.init), rs.ins))

\* C16 witness: run() of pipe([1, 2, 3, 4]) | reduce(sum, 0) is fulfilled with 10.
C16_Witness ==
  /\ gens = << >> /\ src.len = 4
  /\ rs.red = "sum" /\ rs.init = 0
  /\ rs.st = "value" /\ rs.val = 10

\* C17: when the predicate or reducer given to filter, scan or reduce fails,
\* run() of the pipeline rejects with exactly that error.
C17_FunctionFailureRejectsRun ==
  /\ \A j \in 1..Len(gens) :
       gens[j].err # "" => rs.st = "rejected" /\ rs.err = gens[j].err
  /\ rs.ferr # "" => rs.st = "rejected" /\ rs.err = rs.ferr

\* what the generators gs yield over the upstream elements xs, each stage as its
\* combinator is defined
RECURSIVE RefOut(_, _)
RefOut(gs, xs) ==
  IF gs = << >> THEN xs
  ELSE LET g == Head(gs)
           ys == CASE g.kind = "map"    -> Mapped(g.fn, xs)
                   [] g.kind = "filter" -> Passing(g.fn, xs)
                   [] g.kind = "take"   -> SubSeq(xs, 1, Min(g.arg, Len(xs)))
                   [] g.kind = "scan"   -> ScanSeq(g, xs)
       IN  RefOut(Tail(gs), ys)

\* the pipeline's generators as they were when run() made them
Declared ==
  [j \in 1..Len(gens) |-> NewStage(gens[j].kind, gens[j].fn, gens[j].arg)]

\* C18: when the producer fails on a pull, the consumer of map, filter, take or
\* scan (or of a map followed by filter or take) has received every element
\* derived from the elements produced before the failure, in order, its pull
\* throws that same failure, and every generator is finished, so nothing is
\* yielded afterwards; a reduce step rejects with that same failure.
C18_UpstreamFailureSurfaces ==
  src.failed =>
    /\ \A j \in 1..Len(gens) : gens[j].pc = "done" /\ gens[j].err = ""
    /\ IF rs.red = "none"
       THEN /\ cons = "failed" /\ cerr = UpstreamError
            /\ got = RefOut(Declared, Items(src.pulled))
       ELSE /\ rs.st = "rejected" /\ rs.err = UpstreamError /\ rs.ferr = ""
            /\ rs.ins = RefOut(Declared, Items(src.pulled))

\* C18 witness: the producer failed at its fourth pull under map(double) then
\* filter(x > 5); the consumer had received [6] and its pull threw the failure.
C18_Witness ==
  /\ src.failed /\ src.pulled = 3
  /\ Len(gens) = 2 /\ gens[2].kind = "filter" /\ gens[2].fn = "gt5"
  /\ cons = "failed" /\ cerr = UpstreamError /\ got = << 6 >>

\* C19: every run() that has come to its end, also one made after an earlier
\* run() of the same handle has settled, has called every step function of the
\* step list, in order, the first on the context's initial value: no earlier
\* result is reused.  run() and the steps it drives change neither the initial
\* value nor the step list of any context.
C19_RerunRecomputes ==
  /\ [](\A f \in TopFolds :
          LET r == folds[f]
          IN  r.st = "done" =>
                /\ Len(r.ins) = Len(r.steps)
                /\ \A j \in 1..Len(r.ins) : r.ins[j].op = r.steps[j]
                /\ r.steps # << >> => r.ins[1].v = ctxs[r.ctx].v
                /\ r.steps = SubSeq(ctxs[r.ctx].steps, 1, Len(r.steps)))
  /\ [][ folds' # folds => \A c \in DOMAIN ctxs : ctxs'[c] = ctxs[c] ]_vars

\* C19 witness: a handle with two steps was run, and run again after the first
\* run had settled; both runs have ended, with four calls made in all.
C19_Witness ==
  \E f, g \in TopFolds :
    /\ f # g /\ folds[f].ctx = folds[g].ctx
    /\ folds[f].st = "done" /\ folds[g].st = "done"
    /\ Len(folds[f].ins) = 2 /\ Len(folds[g].ins) = 2
    /\ folds[f].acc = folds[g].acc
    /\ invoked >= 4

\* C20: pipe(x) (a new context appears while no run advances) and binding
\* arguments to an operation (a new operation value appears) leave the registry
\* and every step list as they are.  The registry changes only by the push of
\* a coerced handle's context or by a pop of its top, and a step list only
\* grows at its end, while its context is the top of the registry.
C20_BeginAndBindRegisterNothing ==
  [][ /\ ( \/ DOMAIN ctxs' # DOMAIN ctxs /\ folds' = folds
           \/ bound' # bound ) =>
           /\ stack' = stack
           /\ \A c \in DOMAIN ctxs : ctxs'[c].steps = ctxs[c].steps
      /\ stack' # stack =>
           \/ \E c \in DOMAIN ctxs' : stack' = Append(stack, c)
           \/ stack # << >> /\ stack' = SubSeq(stack, 1, Len(stack) - 1)
      /\ \A c \in DOMAIN ctxs :
           ctxs'[c].steps # ctxs[c].steps =>
             /\ stack' # << >> /\ stack'[Len(stack')] = c
             /\ Len(ctxs'[c].steps) > Len(ctxs[c].steps)
             /\ SubSeq(ctxs'[c].steps, 1, Len(ctxs[c].steps)) = ctxs[c].steps ]_vars

\* C20 witness: the program has begun MaxPipes pipelines and bound arguments to
\* an operation; the registry is empty and no context has a step.
C20_Witness ==
  /\ Cardinality(Pipes) = MaxPipes /\ bound # {}
  /\ stack = << >>
  /\ \A c \in DOMAIN ctxs : ctxs[c].steps = << >>

\* C21: declaring an operation, bare or bound, while the registry is empty fails
\* with an error at the declaration and leaves the registry and every context
\* as they were: no step is appended anywhere.
C21_DeclareOnEmptyRegistryFails ==
  [][ \A op \in OpVals(Fns) :
        (stack = << >> /\ Declare(op)) =>
          /\ derr' = derr + 1
          /\ stack' = stack
          /\ ctxs' = ctxs ]_vars

\* C21 witness: a pipeline has been begun but its handle was never coerced; a
\* declaration was made and failed, the registry is empty and the context has
\* no step.
C21_Witness ==
  /\ derr = 1 /\ stack = << >>
  /\ Pipes # {}
  /\ \A c \in DOMAIN ctxs : ctxs[c].steps = << >>

\* C22: the two environments have independent registries and contexts: what is
\* done with the pipe and asPipe of one environment (coercions, declarations,
\* runs, pops) changes nothing of the other environment, and turning from one
\* environment to the other changes nothing of either.
C22_EnvironmentsIndependent ==
  [][ /\ cur' = cur => other' = other
      /\ cur' # cur =>
           /\ other' = [ctxs |-> ctxs, stack |-> stack, bound |-> bound,
                        folds |-> folds, invoked |-> invoked]
           /\ ctxs' = other.ctxs /\ stack' = other.stack /\ bound' = other.bound
           /\ folds' = other.folds /\ invoked' = other.invoked ]_vars

\* C22 witness: a pipeline was declared and run in each environment, one with
\* inc and one with a composed step whose nested context was popped; each
\* registry holds only its own pipeline's context.
C22_Witness ==
  /\ Len(stack) = 1 /\ Len(other.stack) = 1
  /\ \E f \in TopFolds : folds[f].st = "done" /\ folds[f].steps = << Bare("inc") >>
  /\ \E f \in DOMAIN other.folds :
       /\ Len(f) = 1 /\ other.folds[f].st = "done"
       /\ other.folds[f].steps = << Bare("auto") >>

\* C23: for a record (an object literal) every name read from asPipe(record)
\* gives, when the member is a function, the operation value asPipe(member),
\* and otherwise the member's value unchanged; the operation declares, binds
\* and computes like any operation value: a run of a pipeline declared with
\* operations read from lifted objects settles to the fold of the members'
\* functions (and their bound arguments) over the initial value.
C23_RecordLifting ==
  /\ \A l \in lifted :
       Objs[l.obj].plain =>
         LET m == Objs[l.obj].members[l.name]
         IN  l.got = IF m.typ = "function" THEN AsPipe(m.fn) ELSE m
  /\ \A c \in DOMAIN ctxs : \A i \in 1..Len(ctxs[c].steps) :
       /\ ctxs[c].steps[i].fn \in LiftedFns
       /\ ctxs[c].steps[i].args # << >> => ctxs[c].steps[i] \in bound
  /\ \A f \in TopFolds :
       LET r == folds[f]
           x == Expect(r.steps, ctxs[r.ctx].v)
       IN  /\ r.st = "done"   => x.ok /\ r.acc = x.v
           /\ r.st = "failed" => ~x.ok /\ r.err = x.e

\* C23 witness: the members value, inc and add of the record calculator and
\* scale of the record { k, scale } were read; value came out as 42; add was
\* bound to an argument; a run of inc on 1 resolved to 2 and, scale declared
\* next, a second run rejected with the TypeError of calling the record's
\* method without a receiver.
C23_Witness ==
  /\ [obj |-> "calculator", name |-> "value", got |-> NumMember(42)] \in lifted
  /\ [obj |-> "calculator", name |-> "add", got |-> AsPipe("add")] \in lifted
  /\ [obj |-> "record", name |-> "scale", got |-> AsPipe("scale")] \in lifted
  /\ Bound("add", <<-1>>) \in bound
  /\ \E f, g \in TopFolds :
       /\ folds[f].steps = << Bare("inc") >>
       /\ folds[f].st = "done" /\ folds[f].acc = 2
       /\ folds[g].steps = << Bare("inc"), Bare("scale") >>
       /\ folds[g].st = "failed" /\ folds[g].err = "TypeError"

\* C24: an invocation pipeFn(fn)(x) settles to the fold over x of exactly the
\* steps its fn call declared, fulfilled with the last step's value or
\* rejected with the failing step's error, and its context holds only those
\* steps, in every interleaving of invocations.
C24_PipeFnSettlesToOwnFold ==
  \A f \in TopFolds :
    LET r == folds[f]
        x == Expect(ctxs[r.ctx].steps, ctxs[r.ctx].v)
    IN  /\ r.steps = ctxs[r.ctx].steps
        /\ r.ctx = PipeId(f[1])
        /\ r.st = "done"   => x.ok /\ r.acc = x.v
        /\ r.st = "failed" => ~x.ok /\ r.err = x.e

\* C25: the registry gets shorter only when a step that returned the sentinel
\* resumes and pops the nested context its own function call pushed; nothing
\* else the environment exports removes a registry entry.
C25_OnlyAutoFlatteningPops ==
  [][ Len(stack') < Len(stack) =>
        \E f \in DOMAIN folds :
          /\ folds[f].st = "called"
          /\ folds[f].res.k \in {"val", "promise"} /\ folds[f].res.v = 0
          /\ stack[Len(stack)] = NestedId(f, folds[f].i)
          /\ stack' = SubSeq(stack, 1, Len(stack) - 1)
          /\ folds'[f].st # "called" ]_vars

\* C26: once run() has been called on a handle, no later operation changes the
\* step list of its context: declarations made afterwards append nothing.
C26_StepsFrozenAfterRun ==
  [][ \A c \in DOMAIN ctxs :
        (\E f \in TopFolds : folds[f].ctx = c) =>
          ctxs'[c].steps = ctxs[c].steps ]_vars

\* C27: in scan and in reduce the seeding branch (accumulator := element,
\* isFirst := false, reducer not called) is taken only for the first upstream
\* element and only when no initial value was given, whatever the reducer
\* returns.
C27_SeedsOnlyFirstWithoutInitial ==
  [][ /\ \A j \in 1..Len(gens) :
           (gens[j].kind = "scan" /\ gens[j].first /\ ~gens'[j].first) =>
             /\ gens[j].arg = Undefined
             /\ gens[j].pc = "start"
      /\ (rs.first /\ ~rs'.first) =>
             /\ rs.init = Undefined
             /\ rs.ins = << >> ]_vars

\* C28: when the upstream produces exactly n elements and then neither
\* produces another one nor ends, a consumer draining take(upstream, n) still
\* receives the n elements and then the end of the sequence.
C28_TakeEndsOnStalledUpstream ==
  (src.stalls /\ src.len = tk.n) ~>
    (cons = "end" /\ got = [i \in 1..tk.n |-> i])

\* C29: run() of a pipeline of map, filter, take and scan steps is fulfilled
\* with a sequence without pulling from the producer and without calling any
\* function argument; the producer and the generators move only when the
\* consumer pulls; and no element is pulled ahead: every element pulled from
\* the producer has been handed to the first stage's function, and every
\* element a map yielded to the second stage's predicate, before the next
\* element is pulled.
C29_StagesAreLazy ==
  [][ rs.red = "none" =>
        /\ rs'.st # rs.st =>
             /\ rs'.st = "stream"
             /\ src' = src /\ gens' = gens
        /\ (src' # src \/ gens' # gens) =>
             /\ rs.st = "stream" /\ cons = "idle"
             /\ got' # got \/ cons' # "idle"
             /\ gens # << >> /\ gens[1].kind \in {"map", "filter"} =>
                  gens'[1].count = src'.pulled
             /\ Len(gens) = 2 /\ gens[2].kind = "filter" =>
                  gens'[2].count = gens'[1].count ]_vars

\* C29 witness: run() of map(double) | filter(gt5) was fulfilled with the
\* stream; the consumer's first pull took the elements 1, 2, 3 from the
\* producer one after the other, each through map and filter, and received 6.
C29_Witness ==
  /\ rs.st = "stream" /\ rs.red = "none"
  /\ Len(gens) = 2 /\ gens[1].kind = "map" /\ gens[2].kind = "filter"
  /\ gens[2].fn = "gt5"
  /\ got = << 6 >>
  /\ src.pulled = 3 /\ gens[1].count = 3 /\ gens[2].count = 3

\* C30: a declaration made while the registry is not empty appends its step
\* to the context on top of the registry and fails never, whether that
\* context's pipeline has been run already or is a nested context an earlier
\* run left on the registry; nothing else changes.
C30_DeclareAppendsToTop ==
  [][ \A op \in OpVals(RegFns) :
        (stack # << >> /\ Declare(op)) =>
          LET top == stack[Len(stack)]
          IN  /\ ctxs'[top].steps = Append(ctxs[top].steps, op)
              /\ \A c \in DOMAIN ctxs \ {top} : ctxs'[c] = ctxs[c]
              /\ DOMAIN ctxs' = DOMAIN ctxs
              /\ derr' = derr /\ stack' = stack /\ folds' = folds ]_vars

\* C30 witness: the context on top of the registry is a nested context that a
\* run of calculate left there, and it has a third step, declared after that
\* run; the pipeline's own context below it has been run as well.
C30_Witness ==
  /\ Len(stack) >= 2
  /\ stack[Len(stack)] \notin Pipes
  /\ Len(ctxs[stack[Len(stack)]].steps) = 3
  /\ \E f \in TopFolds : folds[f].ctx = stack[1] /\ folds[f].st = "done"
  /\ derr = 0

\* the registry entries that are contexts begun inside a step's function
NestedEntries == {k \in 1..Len(stack) : stack[k] \notin Pipes}

\* C31: in a program that runs one pipeline at a time, a step that
\* auto-flattens through the sentinel rule puts the registry back to the length
\* it had when the step began, while a step whose function returns the nested
\* handle leaves its nested context on the registry; every chain statement
\* adds one entry; and nothing but the sentinel pop ever removes an entry, so
\* that after the runs the registry still holds the nested context of every
\* execution of a handle-returning step and of none of the sentinel steps.
C31_RegistryGrowth ==
  [][ /\ \A f \in DOMAIN folds :
           (folds[f].st = "called" /\ folds'[f].st # "called") =>
             LET r  == folds[f]
                 fn == r.steps[r.i].fn
             IN  /\ fn \in SentinelFns =>
                      /\ Len(stack') = r.before
                      /\ stack' = SubSeq(stack, 1, r.before)
                 /\ fn \in HandleFns =>
                      /\ stack' = stack
                      /\ Len(stack) = r.before + 1
                      /\ stack[Len(stack)] = NestedId(f, r.i)
                 /\ fn \in PlainFns => stack' = stack /\ Len(stack) = r.before
      /\ Len(stack') < Len(stack) =>
           \E f \in DOMAIN folds :
             /\ folds[f].st = "called" /\ folds'[f].st # "called"
             /\ folds[f].steps[folds[f].i].fn \in SentinelFns
      /\ \A c \in Pipes :
           (c \in DOMAIN ctxs' /\ ctxs'[c].steps # ctxs[c].steps) =>
             stack' = Append(stack, c)
      /\ Idle' =>
           /\ \A k \in DOMAIN folds' :
                /\ folds'[k].via = "handle" =>
                     Cardinality({j \in 1..Len(stack') : stack'[j] = folds'[k].ctx}) = 1
                /\ folds'[k].via = "sentinel" =>
                     \A j \in 1..Len(stack') : stack'[j] # folds'[k].ctx
           /\ Cardinality({j \in 1..Len(stack') : stack'[j] \notin Pipes})
                = Cardinality({k \in DOMAIN folds' : folds'[k].via = "handle"}) ]_vars

\* C31 witness: one chain statement declared auto and calculate on a pipeline,
\* which was then run twice; both runs are over, auto's nested contexts are gone
\* and the registry holds the pipeline's context and the nested context of each
\* of the two executions of calculate.
C31_Witness ==
  /\ Idle
  /\ Len(stack) = 3
  /\ stack[1] \in Pipes
  /\ NestedEntries = {2, 3}
  /\ \A f \in {<< 1 >>, << 2 >>} :
       /\ f \in DOMAIN folds
       /\ folds[f].st = "done"
       /\ folds[f].steps = << Bare("auto"), Bare("calculate") >>
       /\ folds[NestedId(f, 1)].via = "sentinel"
       /\ folds[NestedId(f, 2)].via = "handle"
  /\ stack[2] = << 1, 2 >> /\ stack[3] = << 2, 2 >>

\* C32: run() fixes its step sequence when it is called: the steps a run
\* executes are the ones its context had at the call, whatever is declared on
\* the handle while the run is pending, and a run() called later starts with
\* every step declared until then.
C32_RunFixesItsSteps ==
  [][ /\ \A f \in DOMAIN folds :
           /\ folds'[f].steps = folds[f].steps
           /\ folds'[f].ctx = folds[f].ctx
      /\ \A f \in DOMAIN folds' \ DOMAIN folds :
           IsTop(f) => folds'[f].steps = ctxs[folds'[f].ctx].steps
      /\ \A f \in DOMAIN folds' :
           /\ Len(folds'[f].ins) <= Len(folds'[f].steps)
           /\ \A j \in 1..Len(folds'[f].ins) :
                folds'[f].ins[j].op = folds'[f].steps[j]
           /\ folds'[f].st = "done" => Len(folds'[f].outs) = Len(folds'[f].steps) ]_vars

\* C32 witness: the first run() was called with the one step inc and is still
\* pending in that step; asyncDouble was declared on the handle meanwhile; a
\* second run(), called after that, has executed inc and asyncDouble and
\* resolved to 4, while the first run still has one step.
C32_Witness ==
  /\ << 1 >> \in DOMAIN folds /\ << 2 >> \in DOMAIN folds
  /\ folds[<< 1 >>].ctx = folds[<< 2 >>].ctx
  /\ folds[<< 1 >>].steps = << Bare("inc") >>
  /\ folds[<< 1 >>].st = "called"
  /\ ctxs[folds[<< 1 >>].ctx].v = 1
  /\ ctxs[folds[<< 1 >>].ctx].steps = << Bare("inc"), Bare("asyncDouble") >>
  /\ folds[<< 2 >>].steps = << Bare("inc"), Bare("asyncDouble") >>
  /\ folds[<< 2 >>].st = "done" /\ folds[<< 2 >>].acc = 4

\* C33: with a pending promise as the initial value, run() hands the value the
\* promise fulfils with to the first step and resolves to the fold over it (to
\* that value itself without steps); with a rejected promise, run() rejects
\* with the promise's reason and calls no step function.
C33_PromiseAsInitialValue ==
  \A f \in TopFolds :
    LET r == folds[f]
        c == ctxs[r.ctx]
        x == Expect(r.steps, c.v)
    IN  /\ c.vk = "reject" =>
             /\ r.st = "failed" /\ r.err = c.why
             /\ r.ins = << >>
             /\ \A k \in DOMAIN folds : k[1] = f[1] => k = f
        /\ c.vk = "promise" =>
             /\ r.st # "failed"
             /\ r.ins # << >> => r.ins[1].v = c.v
             /\ r.st = "done" => r.acc = x.v

\* C33 witness: a pipeline begun with a promise that fulfils with 2 and
\* declared inc | asyncDouble has resolved to 6; the run of a pipeline begun
\* with a rejected promise and declared with steps has rejected with its
\* reason, and no function was called for it.
C33_Witness ==
  \E f, g \in TopFolds :
    /\ ctxs[folds[f].ctx].vk = "promise"
    /\ folds[f].steps = << Bare("inc"), Bare("asyncDouble") >>
    /\ folds[f].st = "done" /\ folds[f].acc = 6
    /\ folds[f].ins[1].v = 2
    /\ ctxs[folds[g].ctx].vk = "reject"
    /\ Len(folds[g].steps) = 2
    /\ folds[g].st = "failed" /\ folds[g].err = "Init error"
    /\ invoked = 2

\* C34: when a step of a nested pipeline fails, on the sentinel path as on the
\* handle-return path, the composed step of the outer pipeline fails with that
\* same error, the outer run() rejects with exactly it, and no later outer
\* step is called.
C34_NestedFailureRejectsOuterRun ==
  \A k \in DOMAIN folds :
    (~IsTop(k) /\ folds[k].st = "failed") =>
      LET p == folds[Parent(k)]
      IN  /\ p.st = "failed"
          /\ p.err = folds[k].err
          /\ p.err = Expect(Body(p.steps[p.i].fn), p.ins[p.i].v).e
          /\ p.i = k[Len(k)]
          /\ Len(p.ins) = p.i
          /\ Len(p.outs) = p.i - 1
          /\ \A j \in DOMAIN folds :
               (Len(j) = Len(k) /\ Parent(j) = Parent(k)) => j[Len(j)] <= p.i

\* C34 witness: a run of calcFail | inc rejected with the error thrown by the
\* second step of the nested pipeline calcFail returned, and a run of
\* autoFail | inc with the rejection of the first step of the nested pipeline
\* that was popped; in both runs inc was never called.
C34_Witness ==
  \E f, g \in TopFolds :
    /\ folds[f].steps = << Bare("calcFail"), Bare("inc") >>
    /\ folds[f].st = "failed" /\ folds[f].err = "Test error"
    /\ Len(folds[f].ins) = 1
    /\ folds[NestedId(f, 1)].via = "handle"
    /\ folds[NestedId(f, 1)].st = "failed"
    /\ folds[g].steps = << Bare("autoFail"), Bare("inc") >>
    /\ folds[g].st = "failed" /\ folds[g].err = "Async error"
    /\ Len(folds[g].ins) = 1
    /\ folds[NestedId(g, 1)].via = "sentinel"
    /\ folds[NestedId(g, 1)].st = "failed"

\* C35: a step whose function returns an object with a callable run that is no
\* pipeline handle settles to what that run() gives, like a step that returns
\* a handle settles to the handle's fold; a returned object whose run is no
\* function, and the value 0 returned while the registry did not grow, are the
\* step's output as they are, and for none of them a context is popped or a
\* fold started.
C35_RunnableResultIsRun ==
  \A f \in DOMAIN folds :
    LET r == folds[f]
    IN  /\ r.st # "failed"
        /\ r.via # "sentinel"
        /\ ~IsTop(f) => folds[Parent(f)].steps[f[Len(f)]].fn = "calculate"
        /\ (r.st = "called" /\ r.steps[r.i].fn \in ObjectFns) =>
             Len(stack) = r.before
        /\ \A j \in 1..Len(r.outs) :
             LET fn == r.ins[j].op.fn
                 v  == r.ins[j].v
             IN  /\ fn = "job"    => r.outs[j] = v * 3
                 /\ fn = "tagged" => r.outs[j] = v
                 /\ fn = "zero"   => r.outs[j] = 0
                 /\ fn \in ObjectFns => NestedId(f, j) \notin DOMAIN folds
                 /\ fn = "calculate" =>
                      /\ folds[NestedId(f, j)].via = "handle"
                      /\ r.outs[j] = folds[NestedId(f, j)].acc

\* C35 witness: runs of one pipeline have resolved with job's run() result (3
\* for the value 1), and, zero declared next, with 0 while the registry held
\* an entry and was not popped.
C35_Witness ==
  /\ \E f \in TopFolds :
       /\ folds[f].steps = << Bare("job") >>
       /\ folds[f].st = "done" /\ folds[f].acc = 3
       /\ folds[f].ins[1].v = 1
  /\ \E f \in TopFolds :
       /\ folds[f].steps = << Bare("job"), Bare("zero") >>
       /\ folds[f].st = "done" /\ folds[f].acc = 0
  /\ Len(stack) = 2
\* C36: take(pipe(x) | op1 | ... | opk) returns the handle of the pipeline
\* its argument has just begun and declared, and leaves the registry without
\* that pipeline's entry; take(x) on a registry with entries removes the top
\* entry and returns that context's handle; on an empty registry it removes
\* nothing and returns x; and run() on a handle take returned folds the steps
\* of that context over its initial value.
C36_TakeCapturesPipeline ==
  [][ /\ \A x \in ConcVals, ops \in Chains(TakeFns) :
           (Cardinality(Pipes) < MaxPipes /\ TakeChain(x, ops)) =>
             LET c == PipeId(Cardinality(Pipes) + 1)
                 h == taken'[Len(taken')]
             IN  /\ h.k = "handle" /\ h.v = c
                 /\ ctxs'[c].v = x /\ ctxs'[c].steps = ops
                 /\ stack' = stack
      /\ \A x \in InitVals :
           TakeCall(x) =>
             LET h == taken'[Len(taken')]
             IN  IF stack = << >>
                 THEN h.k = "val" /\ h.v = x /\ stack' = stack
                 ELSE /\ h.k = "handle" /\ h.v = stack[Len(stack)]
                      /\ stack' = SubSeq(stack, 1, Len(stack) - 1)
      /\ \A f \in DOMAIN folds' :
           (IsTop(f) /\ folds'[f].st = "done") =>
             /\ folds'[f].ctx \in TakenHandles'
             /\ folds'[f].steps = ctxs'[folds'[f].ctx].steps
             /\ folds'[f].acc = Expect(ctxs'[folds'[f].ctx].steps,
                                       ctxs'[folds'[f].ctx].v).v ]_vars

\* C36 witness: while the registry held the entry of an earlier chain
\* statement, take(pipe(1) | inc | asyncDouble) returned the handle of the new
\* pipeline, whose run() resolved to 4; the registry holds the earlier entry
\* only; and a take(2) on the empty registry had returned 2 before.
C36_Witness ==
  /\ Len(taken) = 2
  /\ taken[1].k = "val" /\ taken[1].v = 2
  /\ taken[2].k = "handle"
  /\ ctxs[taken[2].v].steps = << Bare("inc"), Bare("asyncDouble") >>
  /\ Len(stack) = 1 /\ stack[1] # taken[2].v
  /\ \E f \in TopFolds :
       /\ folds[f].ctx = taken[2].v
       /\ folds[f].st = "done" /\ folds[f].acc = 4

====
